---- MODULE Spec2Model ----
(***************************************************************************)
(* MetamorphLLM: the manager's promotion pipeline (internal/manager) and   *)
(* the manager CLI (cmd/manager), over an abstract filesystem.             *)
(*                                                                         *)
(* A file's content is a record [kind, ver]: kind "none" is a missing      *)
(* file, kind "src" a Go source (ver 0 the original, ver n > 0 the n-th    *)
(* output of the external rewriter), kind "bin" a binary built from the    *)
(* source of that version.                                                 *)
(***************************************************************************)
EXTENDS Integers, Sequences, FiniteSets, TLC

\* ------------------------------------------------------------- bounds
\* Invocations of the manager CLI by one runner.
MaxRuns == 2
\* Top-level declarations of an input file of the rewriter.
MaxDecls == 2
\* Applications of RewriteContent in sequence, each on the previous output.
MaxPasses == 2
\* Pieces of a response text of the service.
MaxPieces == 4
\* Statements of a generated function body, their nesting depth, and the
\* arms of a generated switch, type switch or select.
MaxStmts == 2
MaxDepth == 2
MaxArms == 2
\* Tests of a run of the test suite.
MaxTests == 10

\* ------------------------------------------------------------- files
None == [kind |-> "none", ver |-> 0]
Original == [kind |-> "src", ver |-> 0]
Rewritten(n) == [kind |-> "src", ver |-> n]
Binary(src) == [kind |-> "bin", ver |-> src.ver]

\* The paths the manager derives from its fields.
SuspiciousPath == "suspicious.go"
BackupFile == "suspicious.go.backup"
DefaultOutput == "suspicious.go.rewritten.go"
CustomOutput == "custom.go"
NewBinary == "suspicious.new"
OrigBinary == "suspicious"
BackupBinary == "suspicious.backup"

Paths ==
  {SuspiciousPath, BackupFile, DefaultOutput, CustomOutput,
   NewBinary, OrigBinary, BackupBinary}

Runners == {1, 2}
\* The single pipeline instance of the sequential specification.
Solo == {1}

VARIABLES
  fs,           \* the filesystem: path -> content
  pc,           \* per runner: its position in the code
  cfg,          \* per runner: the Manager fields and the -dry-run flag
  testErr,      \* per runner: RunTests' local testErr (TRUE: non-nil)
  invoked,      \* per runner: the stages this run called: [stage, result, out],
                \* out the content at OutputPath when the stage was called
  runErr,       \* per runner: what Run / dryRunProcess returned
  runs,         \* per runner: runs started so far
  nextVer,      \* the version the next rewriter output gets
  hist,         \* per runner: the file operations and commands of the current stage
  entry,        \* per runner: the filesystem when the current stage was called
  prev,         \* per runner: whether the previous run failed after staging, and
                \* its -output choice
  restoreFailed,\* some rename of a backup to its original path returned an error
  renameFailed, \* some rename returned an error
  faults,       \* whether os.Rename may fail although its source exists
  stopped       \* the position at which a process was killed, "" if none was

\* The rewriter engine (internal/rewriter): one call of RewriteFile.
VARIABLES
  rwPc,              \* position in RewriteFile / RewriteContent / LLMStrategy.Rewrite
  Strategy,          \* Rewriter.Strategy: "LLM" or "FunctionComment"
  pass,              \* how many times the rewriter has been applied, output fed back
  content,           \* RewriteContent's argument: the text of the input file
  f,                 \* the *ast.File the strategy mutates in place
  idx,               \* LLMStrategy.Rewrite: 1-based position of its range loop in f.Decls
  functionsRewritten,\* LLMStrategy.Rewrite's local
  functionSource,    \* LLMStrategy.Rewrite's local: the text sent to the service
  rewrittenSource,   \* LLMStrategy.Rewrite's local: the text callGeminiLLM returned
  rewritten,         \* RewriteContent's local: the bool the strategy returned
  err,               \* RewriteContent's local: the error the strategy returned
  rwResult,          \* the text RewriteFile returned
  rwErr,             \* the error RewriteFile returned
  outcome            \* per declaration index: what the loop did with it

mgrVars ==
  <<fs, pc, cfg, testErr, invoked, runErr, runs, nextVer, hist, entry, prev,
    restoreFailed, renameFailed, faults, stopped>>

rwVars ==
  <<rwPc, Strategy, pass, content, f, idx, functionsRewritten, functionSource, rewrittenSource,
    rewritten, err, rwResult, rwErr, outcome>>

\* One call of LLMStrategy.callGeminiLLM.
VARIABLES
  llmPc,     \* position in callGeminiLLM
  attempt,   \* the retry loop's counter
  sendErr,   \* err: what the last session.SendMessage returned
  llmResp,      \* llmResp: the response of the last SendMessage
  sends,     \* calls of session.SendMessage so far
  waits,     \* the seconds of each time.Sleep so far
  llmResult, \* the text callGeminiLLM returned
  llmErr     \* the error callGeminiLLM returned

llmVars == <<llmPc, attempt, sendErr, llmResp, sends, waits, llmResult, llmErr>>

\* One call of a function of internal/metrics.
VARIABLES
  mtPc,      \* "idle", "call" or "returned"
  mtCall,    \* the function called
  mtArgs,    \* its arguments
  mtRet      \* what it returned

mtVars == <<mtPc, mtCall, mtArgs, mtRet>>

\* What neither the manager nor the rewriter engine touches.
auxVars == <<llmVars, mtVars, faults, stopped>>

vars == <<mgrVars, rwVars, llmVars, mtVars>>

\* ------------------------------------------------------------- Manager fields
Configs ==
  [dry : BOOLEAN, ForceRewrite : BOOLEAN, KeepRewritten : BOOLEAN, custom : BOOLEAN]

\* main: m.OutputPath is <suspicious>.rewritten.go unless -output is given.
OutputPath(r) == IF cfg[r].custom THEN CustomOutput ELSE DefaultOutput

Exists(p) == fs[p].kind # "none"

\* os.Rename(src, dst): fails when src is missing, may fail otherwise; on
\* success dst is replaced by src's content and src is gone.
RenameOutcomes(src) ==
  IF Exists(src) THEN (IF faults THEN {TRUE, FALSE} ELSE {TRUE}) ELSE {FALSE}

RenamedUnlessTargetExists(src, dst) ==
  IF Exists(dst) THEN fs ELSE [fs EXCEPT ![dst] = fs[src], ![src] = None]

Renamed(src, dst) == [fs EXCEPT ![dst] = fs[src], ![src] = None]

\* os.Remove(p) of an existing file: may fail.
Removed(p) == [fs EXCEPT ![p] = None]

\* ------------------------------------------------------------- bookkeeping
Event(op, ok) == [op |-> op, ok |-> ok, src |-> fs[SuspiciousPath]]

Log(r, op, ok) == hist' = [hist EXCEPT ![r] = Append(@, Event(op, ok))]

Goto(r, label) == pc' = [pc EXCEPT ![r] = label]

\* A stage returns res ("nil" or its error) to Run / dryRunProcess.
Return(r, res) ==
  /\ pc' = [pc EXCEPT ![r] = "run"]
  /\ invoked' = [invoked EXCEPT ![r][Len(invoked[r])].result = res]

\* os.Rename(src, dst) with outcome ok, recorded in the stage's history.
RenameStep(r, op, src, dst, ok) ==
  /\ fs' = IF ok THEN Renamed(src, dst) ELSE fs
  /\ Log(r, op, ok)
  /\ renameFailed' = (renameFailed \/ ~ok)
  /\ restoreFailed' = (restoreFailed \/ (~ok /\ src = BackupFile))

\* What no step of a stage changes.
StageFrame == UNCHANGED <<cfg, runErr, runs, entry, prev>> /\ UNCHANGED <<rwVars, auxVars>>

\* ------------------------------------------------------------- Run
RunStagesMetricsLate == <<"RunRewriter", "CompileRewritten", "CalculateMetrics", "RunTests", "DeployBinary", "CleanUp">>
RunStagesDeployFirst == <<"RunRewriter", "CalculateMetrics", "CompileRewritten", "DeployBinary", "RunTests", "CleanUp">>
RunStages ==
  <<"RunRewriter", "CalculateMetrics", "CompileRewritten", "RunTests",
    "DeployBinary", "CleanUp">>

DryRunStagesWithDeploy == <<"RunRewriter", "CompileRewritten", "RunTests", "DeployBinary">>
DryRunStages == <<"RunRewriter", "CompileRewritten", "RunTests">>

Stages(r) == IF cfg[r].dry THEN DryRunStages ELSE RunStages

FirstLabel(stage) ==
  CASE stage = "RunRewriter" -> "RR_stat"
    [] stage = "CalculateMetrics" -> "CM_calc"
    [] stage = "CompileRewritten" -> "CR_mkdir"
    [] stage = "RunTests" -> "RT_stat"
    [] stage = "DeployBinary" -> "DB_statnew"
    [] stage = "CleanUp" -> "CU_rewritten"

\* The message Run wraps a stage's error in.
StepFailed(stage) ==
  CASE stage = "RunRewriter" -> "rewriter step failed"
    [] stage = "CalculateMetrics" -> "metrics calculation failed"
    [] stage = "CompileRewritten" -> "compilation step failed"
    [] stage = "RunTests" -> "testing step failed"
    [] stage = "DeployBinary" -> "deployment step failed"
    [] stage = "CleanUp" -> "cleanup step failed"

LastResult(r) ==
  IF invoked[r] = <<>> THEN "nil" ELSE invoked[r][Len(invoked[r])].result

\* The errors Run returns for a failure after the RunRewriter stage.
LaterStageFailures ==
  {"metrics calculation failed", "compilation step failed", "testing step failed",
   "deployment step failed"}

\* The run that just ended was a Run with ForceRewrite off in which RunRewriter
\* returned nil with the staged file at OutputPath, and a later stage failed.
FailedAfterStaging(r) ==
  /\ pc[r] = "done"
  /\ ~cfg[r].dry
  /\ ~cfg[r].ForceRewrite
  /\ Len(invoked[r]) >= 2 /\ invoked[r][2].out # None
  /\ runErr[r] \in LaterStageFailures

\* A main that renames a leftover .backup file back before it starts.
StartRunRecovering(r) ==
  /\ pc[r] \in {"idle", "done"}
  /\ runs[r] < MaxRuns
  /\ \E c \in Configs : cfg' = [cfg EXCEPT ![r] = c]
  /\ prev' = [prev EXCEPT ![r] =
                [failedAfterStaging |-> FailedAfterStaging(r),
                 custom |-> cfg[r].custom]]
  /\ runs' = [runs EXCEPT ![r] = @ + 1]
  /\ invoked' = [invoked EXCEPT ![r] = <<>>]
  /\ runErr' = [runErr EXCEPT ![r] = "running"]
  /\ hist' = [hist EXCEPT ![r] = <<>>]
  /\ Goto(r, "run")
  /\ fs' = IF Exists(BackupFile) THEN Renamed(BackupFile, SuspiciousPath) ELSE fs
  /\ UNCHANGED <<testErr, nextVer, entry, restoreFailed, renameFailed>>
  /\ UNCHANGED <<rwVars, auxVars>>

\* main: one invocation of the manager CLI with its flags.
StartRun(r) ==
  /\ pc[r] \in {"idle", "done"}
  /\ runs[r] < MaxRuns
  /\ \E c \in Configs : cfg' = [cfg EXCEPT ![r] = c]
  /\ prev' = [prev EXCEPT ![r] =
                [failedAfterStaging |-> FailedAfterStaging(r),
                 custom |-> cfg[r].custom]]
  /\ runs' = [runs EXCEPT ![r] = @ + 1]
  /\ invoked' = [invoked EXCEPT ![r] = <<>>]
  /\ runErr' = [runErr EXCEPT ![r] = "running"]
  /\ hist' = [hist EXCEPT ![r] = <<>>]
  /\ Goto(r, "run")
  /\ UNCHANGED <<fs, testErr, nextVer, entry, restoreFailed, renameFailed>>
  /\ UNCHANGED <<rwVars, auxVars>>

\* Run / dryRunProcess: call the next stage.
RunInvoke(r) ==
  /\ pc[r] = "run"
  /\ LastResult(r) = "nil"
  /\ Len(invoked[r]) < Len(Stages(r))
  /\ LET stage == Stages(r)[Len(invoked[r]) + 1] IN
       /\ invoked' = [invoked EXCEPT ![r] =
                        Append(@, [stage |-> stage, result |-> "pending",
                                   out |-> fs[OutputPath(r)]])]
       /\ Goto(r, FirstLabel(stage))
  /\ hist' = [hist EXCEPT ![r] = <<>>]
  /\ entry' = [entry EXCEPT ![r] = fs]
  /\ UNCHANGED <<fs, cfg, testErr, runErr, runs, nextVer, prev, restoreFailed,
                 renameFailed>>
  /\ UNCHANGED <<rwVars, auxVars>>

\* Run / dryRunProcess: a stage returned an error; return it wrapped.
RunFail(r) ==
  /\ pc[r] = "run"
  /\ LastResult(r) # "nil"
  /\ runErr' = [runErr EXCEPT ![r] = StepFailed(invoked[r][Len(invoked[r])].stage)]
  /\ Goto(r, "done")
  /\ hist' = [hist EXCEPT ![r] = <<>>]
  /\ entry' = [entry EXCEPT ![r] = fs]
  /\ UNCHANGED <<fs, cfg, testErr, invoked, runs, nextVer, prev, restoreFailed,
                 renameFailed>>
  /\ UNCHANGED <<rwVars, auxVars>>

\* Run / dryRunProcess: every stage returned nil.
RunSucceed(r) ==
  /\ pc[r] = "run"
  /\ LastResult(r) = "nil"
  /\ Len(invoked[r]) = Len(Stages(r))
  /\ runErr' = [runErr EXCEPT ![r] = "nil"]
  /\ Goto(r, "done")
  /\ hist' = [hist EXCEPT ![r] = <<>>]
  /\ entry' = [entry EXCEPT ![r] = fs]
  /\ UNCHANGED <<fs, cfg, testErr, invoked, runs, nextVer, prev, restoreFailed,
                 renameFailed>>
  /\ UNCHANGED <<rwVars, auxVars>>

\* ------------------------------------------------------------- RunRewriter
SkipRewriterIgnoringForce(r) == Exists(OutputPath(r))
\* The staged file exists and force-rewrite is off: skip the rewriter.
SkipRewriter(r) == ~cfg[r].ForceRewrite /\ Exists(OutputPath(r))

RunRewriterStat(r) ==
  /\ pc[r] = "RR_stat"
  /\ IF SkipRewriter(r)
       THEN Return(r, "nil")
       ELSE Goto(r, "RR_exec") /\ UNCHANGED invoked
  /\ StageFrame
  /\ UNCHANGED <<fs, testErr, nextVer, hist, restoreFailed, renameFailed>>

\* exec rewriter -input SuspiciousPath: the rewriter CLI writes its output to
\* <input>.rewritten.go and exits 0, or exits 1 without having saved it.
RunRewriterExec(r) ==
  /\ pc[r] = "RR_exec"
  /\ \E ok \in BOOLEAN :
       /\ Log(r, "rewriter", ok)
       /\ IF ok
            THEN /\ fs' = [fs EXCEPT ![DefaultOutput] = Rewritten(nextVer)]
                 /\ nextVer' = nextVer + 1
                 /\ Return(r, "nil")
            ELSE /\ UNCHANGED <<fs, nextVer>>
                 /\ Return(r, "rewriter failed")
  /\ StageFrame
  /\ UNCHANGED <<testErr, restoreFailed, renameFailed>>

\* ------------------------------------------------------------- CalculateMetrics
\* metrics.CalculateMetrics(path): the file must be readable and must parse;
\* the original source parses, a rewriter output may not.
MetricsOutcomes(p) ==
  IF ~Exists(p) THEN {FALSE}
  ELSE IF fs[p] = Original THEN {TRUE}
  ELSE {TRUE, FALSE}

\* Reads SuspiciousPath, then OutputPath; writes nothing.
CalculateMetrics(r) ==
  /\ pc[r] = "CM_calc"
  /\ \E okOrig \in MetricsOutcomes(SuspiciousPath) :
     \E okRew \in MetricsOutcomes(OutputPath(r)) :
       /\ Log(r, "metrics", okOrig /\ okRew)
       /\ Return(r, IF ~okOrig THEN "failed to calculate metrics for original code"
                    ELSE IF ~okRew THEN "failed to calculate metrics for rewritten code"
                    ELSE "nil")
  /\ StageFrame
  /\ UNCHANGED <<fs, testErr, nextVer, restoreFailed, renameFailed>>

\* ------------------------------------------------------------- CompileRewritten
\* os.MkdirAll(TargetBinaryDir)
CompileMkdir(r) ==
  /\ pc[r] = "CR_mkdir"
  /\ \E ok \in BOOLEAN :
       IF ok THEN Goto(r, "CR_stat") /\ UNCHANGED invoked
       ELSE Return(r, "failed to create target binary directory")
  /\ StageFrame
  /\ UNCHANGED <<fs, testErr, nextVer, hist, restoreFailed, renameFailed>>

\* os.Stat(originalFile): found, not found, or another error.
CompileStat(r) ==
  /\ pc[r] = "CR_stat"
  /\ \/ Exists(SuspiciousPath) /\ Goto(r, "CR_backup") /\ UNCHANGED invoked
     \/ ~Exists(SuspiciousPath) /\ Goto(r, "CR_swap") /\ UNCHANGED invoked
     \/ Return(r, "failed to check original source file")
  /\ StageFrame
  /\ UNCHANGED <<fs, testErr, nextVer, hist, restoreFailed, renameFailed>>

\* (1) os.Rename(originalFile, backupFile)
CompileBackup(r) ==
  /\ pc[r] = "CR_backup"
  /\ \E ok \in RenameOutcomes(SuspiciousPath) :
       /\ RenameStep(r, "backup", SuspiciousPath, BackupFile, ok)
       /\ IF ok THEN Goto(r, "CR_swap") /\ UNCHANGED invoked
          ELSE Return(r, "failed to backup original source file")
  /\ StageFrame
  /\ UNCHANGED <<testErr, nextVer>>

CompileSwapSkipped(r) ==
  /\ pc[r] = "CR_swap"
  /\ Goto(r, "CR_build")
  /\ StageFrame
  /\ UNCHANGED <<fs, hist, testErr, nextVer, invoked, restoreFailed, renameFailed>>

\* (2) os.Rename(rewrittenFile, originalFile)
CompileSwap(r) ==
  /\ pc[r] = "CR_swap"
  /\ \E ok \in RenameOutcomes(OutputPath(r)) :
       /\ RenameStep(r, "swap", OutputPath(r), SuspiciousPath, ok)
       /\ Goto(r, IF ok THEN "CR_build" ELSE "CR_swap_undo")
  /\ StageFrame
  /\ UNCHANGED <<testErr, nextVer, invoked>>

\* The swap failed: _ = os.Rename(backupFile, originalFile), return the error.
CompileSwapUndo(r) ==
  /\ pc[r] = "CR_swap_undo"
  /\ \E ok \in RenameOutcomes(BackupFile) :
       RenameStep(r, "restore", BackupFile, SuspiciousPath, ok)
  /\ Return(r, "failed to move rewritten source file")
  /\ StageFrame
  /\ UNCHANGED <<testErr, nextVer>>

\* (3) go build -tags=rewritten -o <dir>/<base>.new ./<dir>
CompileBuild(r) ==
  /\ pc[r] = "CR_build"
  /\ \E ok \in BOOLEAN :
       /\ Log(r, "build", ok)
       /\ fs' = IF ok THEN [fs EXCEPT ![NewBinary] = Binary(fs[SuspiciousPath])]
                ELSE fs
       /\ Goto(r, IF ok THEN "CR_unswap" ELSE "CR_build_failed")
  /\ StageFrame
  /\ UNCHANGED <<testErr, nextVer, invoked, restoreFailed, renameFailed>>

CompileBuildFailedNoRestore(r) ==
  /\ pc[r] = "CR_build_failed"
  /\ Return(r, "compilation failed")
  /\ StageFrame
  /\ UNCHANGED <<fs, hist, testErr, nextVer, restoreFailed, renameFailed>>

\* The build failed: _ = os.Rename(backupFile, originalFile), return the error.
CompileBuildFailed(r) ==
  /\ pc[r] = "CR_build_failed"
  /\ \E ok \in RenameOutcomes(BackupFile) :
       RenameStep(r, "restore", BackupFile, SuspiciousPath, ok)
  /\ Return(r, "compilation failed")
  /\ StageFrame
  /\ UNCHANGED <<testErr, nextVer>>

\* (4) os.Rename(originalFile, rewrittenFile)
CompileUnswap(r) ==
  /\ pc[r] = "CR_unswap"
  /\ \E ok \in RenameOutcomes(SuspiciousPath) :
       /\ RenameStep(r, "unswap", SuspiciousPath, OutputPath(r), ok)
       /\ Goto(r, IF ok THEN "CR_restore_stat" ELSE "CR_unswap_undo")
  /\ StageFrame
  /\ UNCHANGED <<testErr, nextVer, invoked>>

\* (4) failed: _ = os.Rename(backupFile, originalFile), return the error.
CompileUnswapUndo(r) ==
  /\ pc[r] = "CR_unswap_undo"
  /\ \E ok \in RenameOutcomes(BackupFile) :
       RenameStep(r, "restore", BackupFile, SuspiciousPath, ok)
  /\ Return(r, "failed to restore rewritten source file name")
  /\ StageFrame
  /\ UNCHANGED <<testErr, nextVer>>

\* os.Stat(backupFile) before (5)
CompileRestoreStat(r) ==
  /\ pc[r] = "CR_restore_stat"
  /\ IF Exists(BackupFile)
       THEN Goto(r, "CR_restore") /\ UNCHANGED invoked
       ELSE Return(r, "nil")
  /\ StageFrame
  /\ UNCHANGED <<fs, testErr, nextVer, hist, restoreFailed, renameFailed>>

\* (5) os.Rename(backupFile, originalFile)
CompileRestore(r) ==
  /\ pc[r] = "CR_restore"
  /\ \E ok \in RenameOutcomes(BackupFile) :
       /\ RenameStep(r, "restore", BackupFile, SuspiciousPath, ok)
       /\ IF ok THEN Return(r, "nil")
          ELSE Goto(r, "CR_restore_failed") /\ UNCHANGED invoked
  /\ StageFrame
  /\ UNCHANGED <<testErr, nextVer>>

\* (5) failed: _ = os.Rename(rewrittenFile, originalFile), return the error.
CompileRestoreFailed(r) ==
  /\ pc[r] = "CR_restore_failed"
  /\ \E ok \in RenameOutcomes(OutputPath(r)) :
       RenameStep(r, "keep rewritten", OutputPath(r), SuspiciousPath, ok)
  /\ Return(r, "failed to restore original source file from backup")
  /\ StageFrame
  /\ UNCHANGED <<testErr, nextVer>>

\* ------------------------------------------------------------- RunTests
\* os.Stat(originalFile): found, not found, or another error.
TestsStat(r) ==
  /\ pc[r] = "RT_stat"
  /\ \/ Exists(SuspiciousPath) /\ Goto(r, "RT_backup") /\ UNCHANGED invoked
     \/ ~Exists(SuspiciousPath) /\ Goto(r, "RT_swap") /\ UNCHANGED invoked
     \/ Return(r, "failed to check original source file for testing")
  /\ StageFrame
  /\ UNCHANGED <<fs, testErr, nextVer, hist, restoreFailed, renameFailed>>

\* os.Rename(originalFile, backupFile)
TestsBackup(r) ==
  /\ pc[r] = "RT_backup"
  /\ \E ok \in RenameOutcomes(SuspiciousPath) :
       /\ RenameStep(r, "backup", SuspiciousPath, BackupFile, ok)
       /\ IF ok THEN Goto(r, "RT_swap") /\ UNCHANGED invoked
          ELSE Return(r, "failed to backup original source file for testing")
  /\ StageFrame
  /\ UNCHANGED <<testErr, nextVer>>

\* os.Rename(rewrittenFile, originalFile)
TestsSwap(r) ==
  /\ pc[r] = "RT_swap"
  /\ \E ok \in RenameOutcomes(OutputPath(r)) :
       /\ RenameStep(r, "swap", OutputPath(r), SuspiciousPath, ok)
       /\ Goto(r, IF ok THEN "RT_test" ELSE "RT_swap_undo")
  /\ StageFrame
  /\ UNCHANGED <<testErr, nextVer, invoked>>

\* The swap failed: _ = os.Rename(backupFile, originalFile), return the error.
TestsSwapUndo(r) ==
  /\ pc[r] = "RT_swap_undo"
  /\ \E ok \in RenameOutcomes(BackupFile) :
       RenameStep(r, "restore", BackupFile, SuspiciousPath, ok)
  /\ Return(r, "failed to move rewritten file for testing")
  /\ StageFrame
  /\ UNCHANGED <<testErr, nextVer>>

\* testErr := go test -tags=rewritten -timeout TestTimeout ./<dir>
TestsExec(r) ==
  /\ pc[r] = "RT_test"
  /\ \E ok \in BOOLEAN :
       /\ Log(r, "test", ok)
       /\ testErr' = [testErr EXCEPT ![r] = ~ok]
  /\ Goto(r, "RT_unswap")
  /\ StageFrame
  /\ UNCHANGED <<fs, nextVer, invoked, restoreFailed, renameFailed>>

\* restoreErr := os.Rename(originalFile, rewrittenFile); only logged.
TestsUnswap(r) ==
  /\ pc[r] = "RT_unswap"
  /\ \E ok \in RenameOutcomes(SuspiciousPath) :
       RenameStep(r, "unswap", SuspiciousPath, OutputPath(r), ok)
  /\ Goto(r, "RT_restore_stat")
  /\ StageFrame
  /\ UNCHANGED <<testErr, nextVer, invoked>>

TestsRestoreStatSkipping(r) ==
  /\ pc[r] = "RT_restore_stat"
  /\ Goto(r, "RT_result")
  /\ StageFrame
  /\ UNCHANGED <<fs, testErr, nextVer, hist, invoked, restoreFailed, renameFailed>>

\* os.Stat(backupFile)
TestsRestoreStat(r) ==
  /\ pc[r] = "RT_restore_stat"
  /\ Goto(r, IF Exists(BackupFile) THEN "RT_restore" ELSE "RT_result")
  /\ StageFrame
  /\ UNCHANGED <<fs, testErr, nextVer, hist, invoked, restoreFailed, renameFailed>>

\* os.Rename(backupFile, originalFile); a failure is only logged.
TestsRestore(r) ==
  /\ pc[r] = "RT_restore"
  /\ \E ok \in RenameOutcomes(BackupFile) :
       RenameStep(r, "restore", BackupFile, SuspiciousPath, ok)
  /\ Goto(r, "RT_result")
  /\ StageFrame
  /\ UNCHANGED <<testErr, nextVer, invoked>>

TestsResultAlwaysNil(r) == "nil"
\* if testErr != nil { return error }; return nil
TestsResult(r) == IF testErr[r] THEN "tests failed on rewritten code" ELSE "nil"

TestsReturn(r) ==
  /\ pc[r] = "RT_result"
  /\ Return(r, TestsResult(r))
  /\ testErr' = [testErr EXCEPT ![r] = FALSE]
  /\ StageFrame
  /\ UNCHANGED <<fs, nextVer, hist, restoreFailed, renameFailed>>

\* ------------------------------------------------------------- DeployBinary
\* os.Stat(newBinary)
DeployStatNew(r) ==
  /\ pc[r] = "DB_statnew"
  /\ IF Exists(NewBinary)
       THEN Goto(r, "DB_statorig") /\ UNCHANGED invoked
       ELSE Return(r, "new binary not found")
  /\ StageFrame
  /\ UNCHANGED <<fs, testErr, nextVer, hist, restoreFailed, renameFailed>>

\* os.Stat(origBinary)
DeployStatOrig(r) ==
  /\ pc[r] = "DB_statorig"
  /\ Goto(r, IF Exists(OrigBinary) THEN "DB_backup" ELSE "DB_deploy")
  /\ StageFrame
  /\ UNCHANGED <<fs, testErr, nextVer, hist, invoked, restoreFailed, renameFailed>>

\* os.Rename(origBinary, backupBinary)
DeployBackup(r) ==
  /\ pc[r] = "DB_backup"
  /\ \E ok \in RenameOutcomes(OrigBinary) :
       /\ RenameStep(r, "backup binary", OrigBinary, BackupBinary, ok)
       /\ IF ok THEN Goto(r, "DB_deploy") /\ UNCHANGED invoked
          ELSE Return(r, "failed to backup original binary")
  /\ StageFrame
  /\ UNCHANGED <<testErr, nextVer>>

\* os.Rename(newBinary, origBinary)
DeployRename(r) ==
  /\ pc[r] = "DB_deploy"
  /\ \E ok \in RenameOutcomes(NewBinary) :
       /\ RenameStep(r, "deploy", NewBinary, OrigBinary, ok)
       /\ IF ok THEN Return(r, "nil")
          ELSE Goto(r, "DB_failed") /\ UNCHANGED invoked
  /\ StageFrame
  /\ UNCHANGED <<testErr, nextVer>>

DeployFailedNoRestore(r) ==
  /\ pc[r] = "DB_failed"
  /\ Return(r, "failed to deploy new binary")
  /\ StageFrame
  /\ UNCHANGED <<fs, hist, testErr, nextVer, restoreFailed, renameFailed>>

\* The deploy rename failed: if the backup exists, _ = os.Rename(backupBinary,
\* origBinary); return the error.
DeployFailed(r) ==
  /\ pc[r] = "DB_failed"
  /\ IF Exists(BackupBinary)
       THEN \E ok \in RenameOutcomes(BackupBinary) :
              RenameStep(r, "restore binary", BackupBinary, OrigBinary, ok)
       ELSE UNCHANGED <<fs, hist, restoreFailed, renameFailed>>
  /\ Return(r, "failed to deploy new binary")
  /\ StageFrame
  /\ UNCHANGED <<testErr, nextVer>>

\* ------------------------------------------------------------- CleanUp
CleanUpRewrittenAlways(r) ==
  /\ pc[r] = "CU_rewritten"
  /\ IF Exists(OutputPath(r))
       THEN \E ok \in BOOLEAN :
              /\ fs' = IF ok THEN Removed(OutputPath(r)) ELSE fs
              /\ Log(r, "remove rewritten", ok)
       ELSE UNCHANGED <<fs, hist>>
  /\ Goto(r, "CU_backup")
  /\ StageFrame
  /\ UNCHANGED <<testErr, nextVer, invoked, restoreFailed, renameFailed>>

\* if !KeepRewritten and the file exists: os.Remove(OutputPath); a failure is
\* only logged.
CleanUpRewritten(r) ==
  /\ pc[r] = "CU_rewritten"
  /\ IF ~cfg[r].KeepRewritten /\ Exists(OutputPath(r))
       THEN \E ok \in BOOLEAN :
              /\ fs' = IF ok THEN Removed(OutputPath(r)) ELSE fs
              /\ Log(r, "remove rewritten", ok)
       ELSE UNCHANGED <<fs, hist>>
  /\ Goto(r, "CU_backup")
  /\ StageFrame
  /\ UNCHANGED <<testErr, nextVer, invoked, restoreFailed, renameFailed>>

\* backupFiles[0]: the source backup.
CleanUpBackup(r) ==
  /\ pc[r] = "CU_backup"
  /\ IF Exists(BackupFile)
       THEN \E ok \in BOOLEAN :
              /\ fs' = IF ok THEN Removed(BackupFile) ELSE fs
              /\ Log(r, "remove backup", ok)
       ELSE UNCHANGED <<fs, hist>>
  /\ Goto(r, "CU_binbackup")
  /\ StageFrame
  /\ UNCHANGED <<testErr, nextVer, invoked, restoreFailed, renameFailed>>

CleanUpBinaryBackupFatal(r) ==
  /\ pc[r] = "CU_binbackup"
  /\ IF Exists(BackupBinary)
       THEN \E ok \in BOOLEAN :
              /\ fs' = IF ok THEN Removed(BackupBinary) ELSE fs
              /\ Log(r, "remove binary backup", ok)
              /\ IF ok THEN Goto(r, "CU_newbinary") /\ UNCHANGED invoked
                       ELSE Return(r, "failed to remove backup file")
       ELSE UNCHANGED <<fs, hist, invoked>> /\ Goto(r, "CU_newbinary")
  /\ StageFrame
  /\ UNCHANGED <<testErr, nextVer, restoreFailed, renameFailed>>

\* backupFiles[1]: the binary backup.
CleanUpBinaryBackup(r) ==
  /\ pc[r] = "CU_binbackup"
  /\ IF Exists(BackupBinary)
       THEN \E ok \in BOOLEAN :
              /\ fs' = IF ok THEN Removed(BackupBinary) ELSE fs
              /\ Log(r, "remove binary backup", ok)
       ELSE UNCHANGED <<fs, hist>>
  /\ Goto(r, "CU_newbinary")
  /\ StageFrame
  /\ UNCHANGED <<testErr, nextVer, invoked, restoreFailed, renameFailed>>

\* The .new binary, then return nil.
CleanUpNewBinary(r) ==
  /\ pc[r] = "CU_newbinary"
  /\ IF Exists(NewBinary)
       THEN \E ok \in BOOLEAN :
              /\ fs' = IF ok THEN Removed(NewBinary) ELSE fs
              /\ Log(r, "remove new binary", ok)
       ELSE UNCHANGED <<fs, hist>>
  /\ Return(r, "nil")
  /\ StageFrame
  /\ UNCHANGED <<testErr, nextVer, restoreFailed, renameFailed>>

\* ------------------------------------------------------------- rewriter: texts
\* A declaration of a Go file: a function (ast.FuncDecl) with its signature,
\* body ("nil": a declaration without body) and doc comments, or any other
\* declaration (ast.GenDecl).
NoSig == [name |-> "", recv |-> "", params |-> "", results |-> ""]
SigF == [name |-> "F", recv |-> "", params |-> "(x int)", results |-> "int"]
SigG == [name |-> "G", recv |-> "(t T)", params |-> "()", results |-> ""]
SigH == [name |-> "H", recv |-> "(u U)", params |-> "(s string)", results |-> "error"]

\* doc: the comment lines right above the declaration; tail: the line
\* comments after its last token.
GenDecl == [kind |-> "gen", sig |-> NoSig, body |-> "nil", doc |-> <<>>, tail |-> <<>>]
FuncDecl(sig, body, doc) ==
  [kind |-> "func", sig |-> sig, body |-> body, doc |-> doc, tail |-> <<>>]

\* The declarations input files are made of.
SourceDecls ==
  { GenDecl,
    FuncDecl(SigF, "F.body", <<"// F doc">>),
    FuncDecl(SigG, "G.body", <<>>),
    FuncDecl(SigG, "nil", <<>>) }

DeclSeqs(n) == UNION { [1..k -> SourceDecls] : k \in 0..n }

\* A text: whether it starts with a package clause, whether the rest is
\* well-formed Go, whether it is laid out as go/printer lays it out, the
\* declarations it spells, and the comment lines before the package clause
\* and after the last declaration.
Text(pkg, wf, decls) ==
  [pkg |-> pkg, wf |-> wf, gofmt |-> TRUE, decls |-> decls, head |-> <<>>,
   trailer |-> <<>>]

EmptyText == Text(FALSE, TRUE, <<>>)

\* The input files of RewriteFile.
Contents ==
  { [Text(TRUE, wf, d) EXCEPT !.gofmt = g, !.head = h] :
      wf \in BOOLEAN, g \in BOOLEAN, h \in {<<>>, <<"// Copyright">>},
      d \in DeclSeqs(MaxDecls) }

\* The text holds some comment.
HasComments(t) ==
  \/ t.head # <<>>
  \/ t.trailer # <<>>
  \/ \E i \in DOMAIN t.decls : t.decls[i].doc # <<>> \/ t.decls[i].tail # <<>>

\* An *ast.File: its declarations and free comments; Comments: File.Comments
\* is not nil; attached: the declarations whose Doc group is one of
\* File.Comments; atEnd: the declarations whose Doc group was created with
\* its comment positioned at the declaration's End().
NoFile ==
  [Decls |-> <<>>, head |-> <<>>, trailer |-> <<>>, Comments |-> FALSE,
   attached |-> {}, atEnd |-> {}]

\* The tree parser.ParseFile builds with parser.ParseComments.
ParsedFile(t) ==
  [Decls |-> t.decls, head |-> t.head, trailer |-> t.trailer,
   Comments |-> HasComments(t),
   attached |-> {i \in DOMAIN t.decls : t.decls[i].doc # <<>>},
   atEnd |-> {}]

\* parser.ParseFile: an error unless the text is a well-formed file with its
\* package clause; the file's declarations and free comments otherwise.
ParseContentLenient(t) == [err |-> "nil", file |-> ParsedFile(t)]

ParseContent(t) ==
  IF t.pkg /\ t.wf
    THEN [err |-> "nil", file |-> ParsedFile(t)]
    ELSE [err |-> "parse error", file |-> NoFile]

\* How printer.Fprint of a file prints declaration i. When File.Comments is
\* nil the printer takes the comments from the nodes (useNodeComments): a Doc
\* group is printed where its position says, after the declaration's last
\* token for a comment at End(), with the declaration otherwise. When
\* File.Comments is not nil the printer prints that list only: a Doc group
\* that is not in it is not printed; a comment appended to a group of the
\* list is printed with the group.
PrintedDecl(file, i) ==
  LET d == file.Decls[i] IN
    IF ~file.Comments
      THEN IF i \in file.atEnd
             THEN [d EXCEPT !.doc = <<>>, !.tail = d.tail \o d.doc]
             ELSE d
      ELSE IF i \in file.attached THEN d ELSE [d EXCEPT !.doc = <<>>]

\* printer.Fprint of a whole file.
PrintAST(file) ==
  [pkg |-> TRUE, wf |-> TRUE, gofmt |-> TRUE,
   decls |-> [i \in DOMAIN file.Decls |-> PrintedDecl(file, i)],
   head |-> file.head, trailer |-> file.trailer]

\* printer.Fprint of one function declaration: no package clause.
getFunctionSource(funcDecl) == Text(FALSE, TRUE, <<funcDecl>>)

WithTrailerOnly(t, message) == [EmptyText EXCEPT !.trailer = <<message>>]

\* content + "\n\n// <message>\n"
WithTrailer(t, message) == [t EXCEPT !.trailer = Append(@, message)]

\* "// +build rewritten\n\n" + result
WithTag(t) == [t EXCEPT !.head = <<"// +build rewritten">> \o @]

\* ------------------------------------------------------------- rewriter: LLMStrategy
Comment == "// This function was rewritten by Gemini LLM"
UnchangedComment ==
  "// This function was rewritten by Gemini LLM (analyzed but no changes required)"
ParseFailedComment == "// Failed to parse rewritten function code"
NoFuncComment == "// Failed to find function in the rewritten code"

\* The errors callGeminiLLM returns.
LLMErrors ==
  { "environment variable GEMINI_API_KEY not set",
    "failed to create Gemini client",
    "error sending message to Gemini API",
    "Gemini API rate limit exceeded after 5 retries",
    "received empty or invalid response from Gemini API",
    "received suspiciously short response from Gemini API" }

\* The signatures a response may declare.
ResponseSigs == {SigF, SigG, SigH}

\* The texts callGeminiLLM may return for the source sent: the source itself,
\* a bare function (what the prompt asks for), garbage, a file without a
\* function, a file with one function, a file with a declaration before it.
Responses(src) ==
  {src}
    \cup { Text(FALSE, TRUE, <<FuncDecl(s, "new.body", <<>>)>>) : s \in ResponseSigs }
    \cup { Text(TRUE, FALSE, <<>>), Text(TRUE, TRUE, <<GenDecl>>) }
    \cup { Text(TRUE, TRUE, <<FuncDecl(s, b, <<>>)>>) :
             s \in ResponseSigs, b \in {"new.body", "nil"} }
    \cup { Text(TRUE, TRUE, <<GenDecl, FuncDecl(src.decls[1].sig, "new.body", <<>>)>>) }

\* addComment: append to the declaration's doc comments.
addComment(funcDecl, commentText) == [funcDecl EXCEPT !.doc = Append(@, commentText)]

\* The first *ast.FuncDecl among the declarations, GenDecl when there is none.
RECURSIVE FirstFunc(_)
FirstFunc(decls) ==
  IF decls = <<>> THEN GenDecl
  ELSE IF Head(decls).kind = "func" THEN Head(decls)
  ELSE FirstFunc(Tail(decls))

\* funcDecl.Body = rewrittenFunc.Body
SplicedWholeDecl(funcDecl, rewrittenFunc) == [rewrittenFunc EXCEPT !.doc = funcDecl.doc]

Spliced(funcDecl, rewrittenFunc) == [funcDecl EXCEPT !.body = rewrittenFunc.body]

ProcessedWithoutComparison(funcDecl, src, resp) ==
  IF ParseContent(resp).err # "nil"
    THEN [decl |-> addComment(funcDecl, ParseFailedComment), counts |-> FALSE,
          how |-> "unparsable"]
  ELSE IF FirstFunc(ParseContent(resp).file.Decls).kind # "func"
    THEN [decl |-> addComment(funcDecl, NoFuncComment), counts |-> FALSE,
          how |-> "no function"]
  ELSE [decl |-> addComment(Spliced(funcDecl,
                                    FirstFunc(ParseContent(resp).file.Decls)),
                            Comment),
        counts |-> TRUE, how |-> "spliced"]

\* The loop body after callGeminiLLM returned text: the declaration as the
\* loop leaves it, whether functionsRewritten is set, and which branch ran.
Processed(funcDecl, src, resp) ==
  IF resp = src
    THEN [decl |-> addComment(funcDecl, UnchangedComment), counts |-> TRUE,
          how |-> "unchanged"]
  ELSE IF ParseContent(resp).err # "nil"
    THEN [decl |-> addComment(funcDecl, ParseFailedComment), counts |-> FALSE,
          how |-> "unparsable"]
  ELSE IF FirstFunc(ParseContent(resp).file.Decls).kind # "func"
    THEN [decl |-> addComment(funcDecl, NoFuncComment), counts |-> FALSE,
          how |-> "no function"]
  ELSE [decl |-> addComment(Spliced(funcDecl,
                                    FirstFunc(ParseContent(resp).file.Decls)),
                            Comment),
        counts |-> TRUE, how |-> "spliced"]

\* ------------------------------------------------------------- rewriter: actions
NoOutcome == [how |-> "none", why |-> "nil", resp |-> EmptyText]

\* Record what the loop did with declaration i.
Noted(i, how, why, resp) ==
  [outcome EXCEPT ![i] = [how |-> how, why |-> why, resp |-> resp]]

\* return text, err from RewriteFile / RewriteContent.
RewriteReturn(text, e) ==
  /\ rwResult' = text
  /\ rwErr' = e
  /\ rwPc' = "returned"

LoopFrame == UNCHANGED <<Strategy, pass, content, rwResult, rwErr>> /\ UNCHANGED <<mgrVars, auxVars>>

\* RewriteFile: read the file; a read error is returned with an empty text.
RewriteFile ==
  /\ rwPc = "RF_read"
  /\ \E ok \in BOOLEAN :
       IF ok
         THEN rwPc' = "RC_parse" /\ UNCHANGED <<rwResult, rwErr>>
         ELSE RewriteReturn(EmptyText, "failed to read file")
  /\ UNCHANGED <<Strategy, pass, content, f, idx, functionsRewritten, functionSource,
                 rewrittenSource, rewritten, err, outcome>>
  /\ UNCHANGED <<mgrVars, auxVars>>

\* RewriteContent: parse the input; a parse error returns the input with a
\* trailing comment.
RewriteContentParse ==
  /\ rwPc = "RC_parse"
  /\ IF ParseContent(content).err # "nil"
       THEN /\ RewriteReturn(WithTrailer(content, "// Failed to parse code for rewriting"),
                             "nil")
            /\ UNCHANGED <<f, outcome>>
       ELSE /\ f' = ParseContent(content).file
            /\ outcome' = [i \in 1..Len(content.decls) |-> NoOutcome]
            /\ rwPc' = IF Strategy = "LLM" THEN "LS_loop" ELSE "FC_rewrite"
            /\ UNCHANGED <<rwResult, rwErr>>
  /\ UNCHANGED <<Strategy, pass, content, idx, functionsRewritten, functionSource,
                 rewrittenSource, rewritten, err>>
  /\ UNCHANGED <<mgrVars, auxVars>>

\* LLMStrategy.Rewrite: the head of the range loop; declarations that are not
\* functions with a body are skipped; after the last one the strategy returns
\* functionsRewritten, nil.
RewriteLoop ==
  /\ rwPc = "LS_loop"
  /\ IF idx > Len(f.Decls)
       THEN /\ rewritten' = functionsRewritten
            /\ err' = "nil"
            /\ rwPc' = "RC_strategy"
            /\ UNCHANGED <<idx, outcome>>
       ELSE IF f.Decls[idx].kind # "func" \/ f.Decls[idx].body = "nil"
         THEN /\ idx' = idx + 1
              /\ outcome' = Noted(idx, "skipped", "nil", EmptyText)
              /\ UNCHANGED <<rwPc, rewritten, err>>
         ELSE /\ rwPc' = "LS_source"
              /\ UNCHANGED <<idx, outcome, rewritten, err>>
  /\ UNCHANGED <<f, functionsRewritten, functionSource, rewrittenSource>>
  /\ LoopFrame

\* getFunctionSource; its error makes the strategy return false, err.
RewriteGetSource ==
  /\ rwPc = "LS_source"
  /\ \E ok \in BOOLEAN :
       IF ok
         THEN /\ functionSource' = getFunctionSource(f.Decls[idx])
              /\ rwPc' = "LS_call"
              /\ UNCHANGED <<rewritten, err, outcome>>
         ELSE /\ rewritten' = FALSE
              /\ err' = "failed to extract function source"
              /\ outcome' = Noted(idx, "extract failed", "printer error", EmptyText)
              /\ rwPc' = "RC_strategy"
              /\ UNCHANGED functionSource
  /\ UNCHANGED <<f, idx, functionsRewritten, rewrittenSource>>
  /\ LoopFrame

\* callGeminiLLM; its error makes the strategy return false, err.
RewriteCall ==
  /\ rwPc = "LS_call"
  /\ \/ \E e \in LLMErrors :
          /\ rewritten' = FALSE
          /\ err' = "failed to rewrite function"
          /\ outcome' = Noted(idx, "call failed", e, EmptyText)
          /\ rwPc' = "RC_strategy"
          /\ UNCHANGED rewrittenSource
     \/ \E text \in Responses(functionSource) :
          /\ rewrittenSource' = text
          /\ rwPc' = "LS_response"
          /\ UNCHANGED <<rewritten, err, outcome>>
  /\ UNCHANGED <<f, idx, functionsRewritten, functionSource>>
  /\ LoopFrame

\* The rest of the loop body: compare, re-parse, find the function, splice.
RewriteResponse ==
  /\ rwPc = "LS_response"
  /\ LET p == Processed(f.Decls[idx], functionSource, rewrittenSource) IN
       /\ f' = [f EXCEPT !.Decls[idx] = p.decl]
       /\ functionsRewritten' = (functionsRewritten \/ p.counts)
       /\ outcome' = Noted(idx, p.how, "nil", rewrittenSource)
  /\ idx' = idx + 1
  /\ functionSource' = EmptyText
  /\ rewrittenSource' = EmptyText
  /\ rwPc' = "LS_loop"
  /\ UNCHANGED <<rewritten, err>>
  /\ LoopFrame

\* ------------------------------------------------------------- rewriter: FunctionCommentStrategy
CommentText == "// This function was rewritten by MetamorphLLM"

\* FunctionCommentStrategy.Rewrite's ast.Inspect callback on every FuncDecl:
\* a comment positioned at funcDecl.End() is appended to the Doc group, which
\* is created when the declaration has none.
Annotated(file) ==
  [file EXCEPT
     !.Decls = [i \in DOMAIN file.Decls |->
                  IF file.Decls[i].kind = "func"
                    THEN [file.Decls[i] EXCEPT !.doc = Append(@, CommentText)]
                    ELSE file.Decls[i]],
     !.atEnd = @ \cup {i \in DOMAIN file.Decls :
                         file.Decls[i].kind = "func" /\ file.Decls[i].doc = <<>>}]

\* FunctionCommentStrategy.Rewrite: returns whether a FuncDecl was visited, nil.
FunctionCommentRewrite ==
  /\ rwPc = "FC_rewrite"
  /\ f' = Annotated(f)
  /\ functionsRewritten' = (\E i \in DOMAIN f.Decls : f.Decls[i].kind = "func")
  /\ rewritten' = functionsRewritten'
  /\ err' = "nil"
  /\ rwPc' = "RC_strategy"
  /\ UNCHANGED <<idx, functionSource, rewrittenSource, outcome>>
  /\ LoopFrame

\* The text returned is handed to RewriteContent again.
RewriteAgain ==
  /\ rwPc = "returned"
  /\ rwErr = "nil"
  /\ pass < MaxPasses
  /\ pass' = pass + 1
  /\ content' = rwResult
  /\ f' = NoFile
  /\ functionsRewritten' = FALSE
  /\ rewritten' = FALSE
  /\ rwResult' = EmptyText
  /\ rwPc' = "RC_parse"
  /\ UNCHANGED <<Strategy, idx, functionSource, rewrittenSource, err, rwErr, outcome>>
  /\ UNCHANGED <<mgrVars, auxVars>>

\* RewriteContent after r.Strategy.Rewrite(f) returned.
RewriteContentStrategy ==
  /\ rwPc = "RC_strategy"
  /\ IF err # "nil"
       THEN RewriteReturn(WithTrailer(content, "// Error during rewriting"), "nil")
     ELSE IF ~rewritten
       THEN RewriteReturn(WithTrailer(content, "// No changes made by the MetamorphLLM"),
                          "nil")
     ELSE rwPc' = "RC_print" /\ UNCHANGED <<rwResult, rwErr>>
  /\ UNCHANGED <<Strategy, pass, content, f, idx, functionsRewritten, functionSource,
                 rewrittenSource, rewritten, err, outcome>>
  /\ UNCHANGED <<mgrVars, auxVars>>

\* RewriteContent: print the AST, compare with the input, add the build tag.
RewriteContentPrint ==
  /\ rwPc = "RC_print"
  /\ \E ok \in BOOLEAN :
       IF ~ok
         THEN RewriteReturn(WithTrailer(content, "// Failed to print rewritten code"),
                            "nil")
       ELSE IF PrintAST(f) = content
         THEN RewriteReturn(WithTrailer(content,
                              "// Processed by MetamorphLLM (no changes needed)"),
                            "nil")
       ELSE RewriteReturn(WithTag(PrintAST(f)), "nil")
  /\ UNCHANGED <<Strategy, pass, content, f, idx, functionsRewritten, functionSource,
                 rewrittenSource, rewritten, err, outcome>>
  /\ UNCHANGED <<mgrVars, auxVars>>

\* ------------------------------------------------------------- rewriter: callGeminiLLM
maxRetriesSix == 5 + 1
\* const maxRetries
maxRetries == 5

\* What session.SendMessage returns as err: nil or an error with this message.
SendOutcomes == {"nil", "googleapi: Error 429", "Too Many Requests", "connection refused"}

\* strings.Contains(err.Error(), "429") || strings.Contains(err.Error(), "Too Many Requests")
RateLimited(e) == e \in {"googleapi: Error 429", "Too Many Requests"}

\* A response text is a sequence of pieces: an opening go code fence, a bare
\* code fence, one white-space character, or five characters of code.  The
\* tilde stands for the backquote of the source.
Pieces == {"~~~go", "~~~", " ", "code."}

PieceLen(p) == CASE p = "~~~go" -> 5 [] p = "~~~" -> 3 [] p = " " -> 1 [] OTHER -> 5

RECURSIVE TextLen(_)
TextLen(t) == IF t = <<>> THEN 0 ELSE PieceLen(Head(t)) + TextLen(Tail(t))

Texts(n) == UNION { [1..k -> Pieces] : k \in 0..n }

\* A response: whether it has a candidate with content parts, and their text.
NoResp == [parts |-> FALSE, text |-> <<>>]
Resps == {NoResp} \cup { [parts |-> TRUE, text |-> t] : t \in Texts(MaxPieces) }

RECURSIVE TrimLeft(_)
TrimLeft(t) == IF t # <<>> /\ Head(t) = " " THEN TrimLeft(Tail(t)) ELSE t

RECURSIVE TrimRight(_)
TrimRight(t) ==
  IF t # <<>> /\ t[Len(t)] = " " THEN TrimRight(SubSeq(t, 1, Len(t) - 1)) ELSE t

\* strings.TrimSpace
TrimSpace(t) == TrimRight(TrimLeft(t))

UpToEnd(t) == t

\* result[:idx] for idx the strings.LastIndex of the bare fence in result,
\* result itself when there is none.
BeforeLastFence(t) ==
  LET at == {i \in DOMAIN t : t[i] \in {"~~~", "~~~go"}} IN
    IF at = {} THEN t
    ELSE SubSeq(t, 1, (CHOOSE i \in at : \A j \in at : j <= i) - 1)

\* The clean-up of the response text: trim, strip the code fences, trim.
Cleaned(t) ==
  LET result == TrimSpace(t) IN
    IF result # <<>> /\ Head(result) \in {"~~~go", "~~~"}
      THEN TrimSpace(BeforeLastFence(Tail(result)))
      ELSE result

backoffTimeLinear(a) == 2 * a + 1

\* math.Min(math.Pow(2, float64(attempt)), 60) seconds
backoffTime(a) == IF 2^a < 60 THEN 2^a ELSE 60

LLMReturn(text, e) ==
  /\ llmResult' = text
  /\ llmErr' = e
  /\ llmPc' = "returned"

LLMFrame == UNCHANGED <<mgrVars, rwVars, mtVars>>

\* The API key lookup and the client creation; each may fail.
LLMSetup ==
  /\ llmPc = "LC_setup"
  /\ \/ LLMReturn(<<>>, "environment variable GEMINI_API_KEY not set")
     \/ LLMReturn(<<>>, "failed to create Gemini client")
     \/ llmPc' = "LC_send" /\ UNCHANGED <<llmResult, llmErr>>
  /\ UNCHANGED <<attempt, sendErr, llmResp, sends, waits>>
  /\ LLMFrame

\* One iteration of the retry loop up to the sleep: send; nil breaks out of
\* the loop, a rate-limit error goes on to the sleep, any other error returns.
LLMSend ==
  /\ llmPc = "LC_send"
  /\ attempt < maxRetries
  /\ sends' = sends + 1
  /\ \E e \in SendOutcomes :
       /\ sendErr' = e
       /\ IF e = "nil"
            THEN /\ \E r \in Resps : llmResp' = r
                 /\ llmPc' = "LC_check"
                 /\ UNCHANGED <<llmResult, llmErr>>
          ELSE IF RateLimited(e)
            THEN /\ llmPc' = "LC_sleep"
                 /\ UNCHANGED <<llmResp, llmResult, llmErr>>
          ELSE /\ LLMReturn(<<>>, "error sending message to Gemini API")
               /\ UNCHANGED llmResp
  /\ UNCHANGED <<attempt, waits>>
  /\ LLMFrame

LLMSleepBeforeRetryOnly ==
  /\ llmPc = "LC_sleep"
  /\ waits' = IF attempt + 1 < maxRetries
                THEN Append(waits, backoffTime(attempt)) ELSE waits
  /\ attempt' = attempt + 1
  /\ llmPc' = IF attempt + 1 < maxRetries THEN "LC_send" ELSE "LC_check"
  /\ UNCHANGED <<sendErr, llmResp, sends, llmResult, llmErr>>
  /\ LLMFrame

\* time.Sleep(waitTime); continue: attempt++ and the loop condition.
LLMSleep ==
  /\ llmPc = "LC_sleep"
  /\ waits' = Append(waits, backoffTime(attempt))
  /\ attempt' = attempt + 1
  /\ llmPc' = IF attempt + 1 < maxRetries THEN "LC_send" ELSE "LC_check"
  /\ UNCHANGED <<sendErr, llmResp, sends, llmResult, llmErr>>
  /\ LLMFrame

\* After the loop: the error left by the last attempt, the empty response,
\* the clean-up of the text and the length check.
LLMCheck ==
  /\ llmPc = "LC_check"
  /\ IF sendErr # "nil"
       THEN IF RateLimited(sendErr)
              THEN LLMReturn(<<>>, "Gemini API rate limit exceeded after 5 retries")
              ELSE LLMReturn(<<>>, "error sending message to Gemini API")
     ELSE IF ~llmResp.parts
       THEN LLMReturn(<<>>, "received empty or invalid response from Gemini API")
     ELSE IF TextLen(Cleaned(llmResp.text)) < 10
       THEN LLMReturn(<<>>, "received suspiciously short response from Gemini API")
     ELSE LLMReturn(Cleaned(llmResp.text), "nil")
  /\ UNCHANGED <<attempt, sendErr, llmResp, sends, waits>>
  /\ LLMFrame

\* ------------------------------------------------------------- metrics: syntax trees
\* A node of go/ast: its type, its token (operator or branch keyword), its
\* children in the order ast.Walk visits them, and the index among the
\* children of its Body block (0 when it has none).
Node(kind, tok, kids, body) == [kind |-> kind, tok |-> tok, kids |-> kids, body |-> body]

Ident == Node("Ident", "", <<>>, 0)
BinaryExpr(op, x, y) == Node("BinaryExpr", op, <<x, y>>, 0)
BlockStmt(list) == Node("BlockStmt", "", list, 0)
FuncLit(list) == Node("FuncLit", "", <<BlockStmt(list)>>, 1)
CallExpr(fun) == Node("CallExpr", "", <<fun>>, 0)
ExprStmt(x) == Node("ExprStmt", "", <<x>>, 0)
AssignStmt(x) == Node("AssignStmt", "", <<Ident, x>>, 0)
BranchStmt(tok) == Node("BranchStmt", tok, <<>>, 0)
\* if cond { list }
IfStmt(cond, list) == Node("IfStmt", "", <<cond, BlockStmt(list)>>, 2)
\* if cond { list } else els, els a block or an if statement
IfElse(cond, list, els) == Node("IfStmt", "", <<cond, BlockStmt(list), els>>, 2)
\* if init; cond { list }
IfInit(init, cond, list) == Node("IfStmt", "", <<init, cond, BlockStmt(list)>>, 3)
\* for cond { list }
ForStmt(cond, list) == Node("ForStmt", "", <<cond, BlockStmt(list)>>, 2)
\* for range x { list }
RangeStmt(x, list) == Node("RangeStmt", "", <<x, BlockStmt(list)>>, 2)
CaseClause(list) == Node("CaseClause", "", list, 0)
CommClause(list) == Node("CommClause", "", list, 0)
\* switch tag { arms }
SwitchStmt(tag, arms) == Node("SwitchStmt", "", <<tag, BlockStmt(arms)>>, 2)
\* switch x := tag.(type) { arms }
TypeSwitchStmt(tag, arms) ==
  Node("TypeSwitchStmt", "", <<AssignStmt(tag), BlockStmt(arms)>>, 2)
\* select { arms }
SelectStmt(arms) == Node("SelectStmt", "", <<BlockStmt(arms)>>, 1)
FuncDeclNode(list) == Node("FuncDecl", "", <<Ident, BlockStmt(list)>>, 2)
File(decls) == Node("File", "", <<Ident>> \o decls, 0)

\* node.Body.List of a node that has a Body
BodyList(n) == n.kids[n.body].kids

\* The calls of the function ast.Inspect is given, in order: each node with
\* its identity (the path from the root), parents before children, children
\* in the order of ast.Walk.
RECURSIVE Walk(_, _)
RECURSIVE WalkKids(_, _, _)
Walk(n, path) == <<[id |-> path, node |-> n]>> \o WalkKids(n.kids, path, 1)
WalkKids(kids, path, i) ==
  IF i > Len(kids) THEN <<>>
  ELSE Walk(kids[i], Append(path, i)) \o WalkKids(kids, path, i + 1)

Inspect(file) == Walk(file, <<>>)

ControlKinds ==
  {"IfStmt", "ForStmt", "RangeStmt", "SwitchStmt", "TypeSwitchStmt", "SelectStmt"}

\* ------------------------------------------------------------- metrics: complexity
\* What one node adds to the cyclomatic complexity.
CyclomaticOf(n) ==
  CASE n.kind = "IfStmt" -> 1
    [] n.kind \in {"ForStmt", "RangeStmt"} -> 1
    [] n.kind = "BinaryExpr" -> IF n.tok \in {"&&", "||"} THEN 1 ELSE 0
    [] n.kind \in {"SwitchStmt", "TypeSwitchStmt", "SelectStmt"} ->
         (Len(BodyList(n)) - 1) + (IF Len(BodyList(n)) = 0 THEN 1 ELSE 0)
    [] OTHER -> 0

RECURSIVE Sum(_)
Sum(ns) == IF ns = <<>> THEN 0 ELSE Head(ns) + Sum(Tail(ns))

calculateCyclomaticComplexity(file) ==
  LET events == Inspect(file)
  IN 1 + Sum([i \in DOMAIN events |-> CyclomaticOf(events[i].node)])

isControlFlowParentNever(parent, blockId) == FALSE

\* node.Body == blockNode, a comparison of pointers
isControlFlowParent(parent, blockId) ==
  /\ parent.node.kind \in ControlKinds
  /\ Append(parent.id, parent.node.body) = blockId

\* The first Inspect: nestingLevels after the events from i on, given the
\* nodeStack and the nestingLevels (a set of <<node, level>>) so far.
RECURSIVE NestingLevels(_, _, _, _)
NestingLevels(events, i, nodeStack, levels) ==
  IF i > Len(events) THEN levels
  ELSE LET e == events[i] IN
    IF e.node.kind \in ControlKinds
      THEN LET level ==
                 IF Len(nodeStack) > 0
                   THEN LET parentNode == nodeStack[Len(nodeStack)]
                        IN (CHOOSE p \in levels : p[1] = parentNode.id)[2] + 1
                   ELSE 0
           IN NestingLevels(events, i + 1, Append(nodeStack, e),
                            levels \cup {<<e.id, level>>})
    ELSE IF /\ e.node.kind = "BlockStmt"
            /\ Len(nodeStack) > 0
            /\ isControlFlowParent(nodeStack[Len(nodeStack)], e.id)
      THEN NestingLevels(events, i + 1, SubSeq(nodeStack, 1, Len(nodeStack) - 1), levels)
    ELSE NestingLevels(events, i + 1, nodeStack, levels)

\* What one node adds to the cognitive complexity in the second Inspect.
CognitiveOf(e, levels) ==
  LET n == e.node
      level == (CHOOSE p \in levels : p[1] = e.id)[2]
  IN CASE n.kind = "IfStmt" ->
            1 + level + (IF Len(n.kids) > n.body THEN 1 ELSE 0)
       [] n.kind \in {"ForStmt", "RangeStmt"} -> 1 + level
       [] n.kind \in {"SwitchStmt", "TypeSwitchStmt", "SelectStmt"} ->
            1 + level + (IF Len(BodyList(n)) > 0 THEN Len(BodyList(n)) - 1 ELSE 0)
       [] n.kind = "BinaryExpr" -> IF n.tok \in {"&&", "||"} THEN 1 ELSE 0
       [] n.kind = "BranchStmt" ->
            IF n.tok \in {"break", "continue", "goto"} THEN 1 ELSE 0
       [] n.kind = "ExprStmt" ->
            IF /\ n.kids[1].kind = "CallExpr"
               /\ n.kids[1].kids[1].kind = "FuncLit"
              THEN 1 ELSE 0
       [] OTHER -> 0

calculateCognitiveComplexity(file) ==
  LET events == Inspect(file)
      nestingLevels == NestingLevels(events, 1, <<>>, {})
  IN Sum([i \in DOMAIN events |-> CognitiveOf(events[i], nestingLevels)])

countFunctions(file) ==
  LET events == Inspect(file)
  IN Sum([i \in DOMAIN events |-> IF events[i].node.kind = "FuncDecl" THEN 1 ELSE 0])

\* ------------------------------------------------------------- metrics: lines of code
\* A line of text is a sequence of words: one white-space character, a
\* comment opener or closer, or a run of other characters.
Words == {" ", "//", "/*", "*/", "text"}

\* strings.HasPrefix
HasPrefix(line, prefix) == line # <<>> /\ Head(line) = prefix

\* The lines of a file: what stands above the package clause, the package
\* clause, and every declaration on a line of its own.
Lines(c) ==
  c.head \o << <<"text">> >> \o [i \in 1..(Len(c.file.kids) - 1) |-> <<"text", " ", "text">>]

calculateLOC(lines) ==
  Sum([i \in DOMAIN lines |->
        LET line == TrimSpace(lines[i])
        IN IF line # <<>> /\ ~HasPrefix(line, "//") /\ ~HasPrefix(line, "/*")
             THEN 1 ELSE 0])

\* ------------------------------------------------------------- metrics: percentages
\* A float64 value as an exact fraction in lowest terms; den = 0 stands for
\* the infinities (num 1 or -1) and NaN (num 0) that a division by zero gives.
RECURSIVE GCD(_, _)
GCD(a, b) == IF b = 0 THEN a ELSE GCD(b, a % b)

Abs(a) == IF a < 0 THEN 0 - a ELSE a

Sign(a) == IF a < 0 THEN 0 - 1 ELSE IF a > 0 THEN 1 ELSE 0

Frac(num, den) ==
  IF den = 0 THEN [num |-> Sign(num), den |-> 0]
  ELSE LET g == GCD(Abs(num), Abs(den))
       IN [num |-> Sign(den) * (num \div g), den |-> Abs(den) \div g]

\* float64(a) / float64(b)
Quo(a, b) == Frac(a, b)

\* x * 100
Times100(x) == Frac(x.num * 100, x.den)

Zero == Frac(0, 1)

CalculateFunctionalEquivalenceUnguarded(passedTests, totalTests) ==
  Times100(Quo(passedTests, totalTests))

CalculateFunctionalEquivalence(passedTests, totalTests) ==
  IF totalTests = 0 THEN Zero ELSE Times100(Quo(passedTests, totalTests))

DeltaOfMetamorphic(original, metamorphic) ==
  Times100(Quo(metamorphic - original, metamorphic))

\* float64(metamorphic.X-original.X) / float64(original.X) * 100
Delta(original, metamorphic) == Times100(Quo(metamorphic - original, original))

CalculateDeltaMetrics(original, metamorphic) ==
  [locDelta |-> Delta(original.LOC, metamorphic.LOC),
   ccDelta |-> Delta(original.CC, metamorphic.CC),
   cogCDelta |-> Delta(original.CogC, metamorphic.CogC)]

NoMetrics == [LOC |-> 0, CC |-> 0, CogC |-> 0, FuncCount |-> 0, TestPassCount |-> 0]

\* CalculateMetrics on the content of a file that was read.
CalculateFileMetrics(c) ==
  IF ~c.parses
    THEN [metrics |-> NoMetrics, err |-> "failed to parse file"]
    ELSE [metrics |-> [LOC |-> calculateLOC(Lines(c)),
                       CC |-> calculateCyclomaticComplexity(c.file),
                       CogC |-> calculateCognitiveComplexity(c.file),
                       FuncCount |-> countFunctions(c.file),
                       TestPassCount |-> 0],
          err |-> "nil"]

\* ------------------------------------------------------------- metrics: inputs
Leaves == {ExprStmt(BinaryExpr("&&", Ident, Ident)), BranchStmt("break")}

Arms(Clause(_)) == UNION { [1..k -> {Clause(<<>>)}] : k \in 0..MaxArms }

\* Statements that hold no further statement.
Flat ==
  Leaves
  \cup {RangeStmt(Ident, <<>>),
        IfElse(Ident, <<>>, BlockStmt(<<>>)),
        IfElse(Ident, <<>>, IfStmt(Ident, <<>>))}
  \cup {SwitchStmt(Ident, a) : a \in Arms(CaseClause)}
  \cup {TypeSwitchStmt(Ident, a) : a \in Arms(CaseClause)}
  \cup {SelectStmt(a) : a \in Arms(CommClause)}

\* Statements nested at most d deep, the body of an if or a for statement
\* holding at most one statement.
RECURSIVE Stmts(_)
Stmts(d) ==
  IF d = 0 THEN Leaves
  ELSE LET lists == {<<>>} \cup {<<s>> : s \in Stmts(d - 1)}
       IN Flat \cup {IfStmt(Ident, l) : l \in lists}
               \cup {ForStmt(Ident, l) : l \in lists}

\* Statements that stand before and after a nested one.
Simple == Leaves \cup {IfStmt(Ident, <<>>), ForStmt(Ident, <<>>)}

SimpleLists == UNION { [1..k -> Simple] : k \in 0..(MaxStmts - 1) }

\* Function bodies of at most MaxStmts statements, one of them any statement
\* of the generator and the others simple ones.
StmtLists ==
  {<<>>}
  \cup UNION {{p[1] \o <<s>> \o p[2] : s \in Stmts(MaxDepth)} :
               p \in {q \in SimpleLists \X SimpleLists : Len(q[1]) + Len(q[2]) < MaxStmts}}

\* Files the generator does not reach: the file of the package's test,
\* statements inside a case clause, inside a function literal of an if
\* statement's Init, and a called function literal.
SpecialFiles ==
  {File(<<FuncDeclNode(<<>>),
          FuncDeclNode(<<IfStmt(Ident,
                           <<ForStmt(BinaryExpr("<", Ident, Ident),
                                     <<IfStmt(BinaryExpr("==", Ident, Ident), <<>>)>>)>>)>>),
          FuncDeclNode(<<IfStmt(Ident, <<IfStmt(Ident, <<>>)>>)>>)>>),
   File(<<FuncDeclNode(<<SwitchStmt(Ident,
                           <<CaseClause(<<IfStmt(Ident, <<>>)>>), CaseClause(<<>>)>>)>>)>>),
   File(<<FuncDeclNode(<<IfInit(AssignStmt(CallExpr(FuncLit(<<IfStmt(Ident, <<>>)>>))),
                                Ident, <<>>)>>)>>),
   File(<<FuncDeclNode(<<ExprStmt(CallExpr(FuncLit(<<>>))),
                         BranchStmt("return")>>)>>),
   File(<<>>)}

\* What stands above the package clause: nothing, a line comment and a
\* blank line, an indented line comment, a block comment of one line and a
\* line of white space, a block comment of three lines.
Heads ==
  {<<>>,
   << <<"//", " ", "text">>, <<>> >>,
   << <<" ", "//", " ", "text">> >>,
   << <<"/*", " ", "text", " ", "*/">>, <<" ">> >>,
   << <<"/*", " ", "text">>, <<" ", "text">>, <<"text", " ", "*/">> >>}

Content(head, tree) == [parses |-> TRUE, head |-> head, file |-> tree]

UnparsableFile == [parses |-> FALSE, head |-> <<>>, file |-> File(<<>>)]

MetricsFiles ==
  {Content(<<>>, File(<<FuncDeclNode(l)>>)) : l \in StmtLists}
  \cup {Content(h, file) : h \in Heads, file \in SpecialFiles}
  \cup {UnparsableFile}

MetricValues == [LOC : {1, 100, 120}, CC : {1, 10, 12}, CogC : {0, 15, 18}]

MetricsOf(v) == [NoMetrics EXCEPT !.LOC = v.LOC, !.CC = v.CC, !.CogC = v.CogC]

\* ------------------------------------------------------------- metrics: calls
MetricsFrame == UNCHANGED <<mgrVars, rwVars, llmVars>>

\* CalculateMetrics(filePath): mtArgs is the file at filePath, None when
\* reading it fails.
CallCalculateMetrics ==
  /\ mtPc = "call"
  /\ mtCall = "CalculateMetrics"
  /\ mtRet' = IF mtArgs = <<None>>
                THEN [metrics |-> NoMetrics, err |-> "failed to read file"]
                ELSE CalculateFileMetrics(mtArgs[1])
  /\ mtPc' = "returned"
  /\ UNCHANGED <<mtCall, mtArgs>>
  /\ MetricsFrame

CallCalculateFunctionalEquivalence ==
  /\ mtPc = "call"
  /\ mtCall = "CalculateFunctionalEquivalence"
  /\ mtRet' = CalculateFunctionalEquivalence(mtArgs[1], mtArgs[2])
  /\ mtPc' = "returned"
  /\ UNCHANGED <<mtCall, mtArgs>>
  /\ MetricsFrame

CallCalculateDeltaMetrics ==
  /\ mtPc = "call"
  /\ mtCall = "CalculateDeltaMetrics"
  /\ mtRet' = CalculateDeltaMetrics(mtArgs[1], mtArgs[2])
  /\ mtPc' = "returned"
  /\ UNCHANGED <<mtCall, mtArgs>>
  /\ MetricsFrame

\* No callGeminiLLM call in progress.
LLMIdle ==
  /\ llmPc = "idle"
  /\ attempt = 0
  /\ sendErr = "nil"
  /\ llmResp = NoResp
  /\ sends = 0
  /\ waits = <<>>
  /\ llmResult = <<>>
  /\ llmErr = "nil"

\* No metrics call in progress.
MetricsIdle ==
  /\ mtPc = "idle"
  /\ mtCall = "none"
  /\ mtArgs = <<>>
  /\ mtRet = <<>>

\* No rewriter call in progress.
RewriterIdle ==
  /\ rwPc = "idle"
  /\ Strategy = "LLM"
  /\ pass = 1
  /\ content = EmptyText
  /\ f = NoFile
  /\ idx = 1
  /\ functionsRewritten = FALSE
  /\ functionSource = EmptyText
  /\ rewrittenSource = EmptyText
  /\ rewritten = FALSE
  /\ err = "nil"
  /\ rwResult = EmptyText
  /\ rwErr = "nil"
  /\ outcome = <<>>

\* ------------------------------------------------------------- specification
\* Before the first run: the original source is in place (main checks it); a
\* staged rewritten file and a deployed binary of an earlier run may exist.
InitFiles ==
  {[p \in Paths |->
      IF p = SuspiciousPath THEN Original
      ELSE IF p = DefaultOutput /\ staged THEN Rewritten(1)
      ELSE IF p = OrigBinary /\ deployed THEN Binary(Original)
      ELSE None] : staged \in BOOLEAN, deployed \in BOOLEAN}

\* NewManager's defaults.
NewManager ==
  [dry |-> FALSE, ForceRewrite |-> FALSE, KeepRewritten |-> TRUE, custom |-> FALSE]

NoRun == [failedAfterStaging |-> FALSE, custom |-> FALSE]

\* No manager run started.
ManagerIdle ==
  /\ nextVer = 2
  /\ pc = [r \in Runners |-> "idle"]
  /\ cfg = [r \in Runners |-> NewManager]
  /\ testErr = [r \in Runners |-> FALSE]
  /\ invoked = [r \in Runners |-> <<>>]
  /\ runErr = [r \in Runners |-> "nil"]
  /\ runs = [r \in Runners |-> 0]
  /\ hist = [r \in Runners |-> <<>>]
  /\ entry = [r \in Runners |-> fs]
  /\ prev = [r \in Runners |-> NoRun]
  /\ restoreFailed = FALSE
  /\ renameFailed = FALSE

Init ==
  /\ fs \in InitFiles
  /\ ManagerIdle
  /\ faults = TRUE
  /\ stopped = ""
  /\ RewriterIdle
  /\ LLMIdle
  /\ MetricsIdle

Step(r) ==
  \/ StartRun(r)
  \/ RunInvoke(r)
  \/ RunFail(r)
  \/ RunSucceed(r)
  \/ RunRewriterStat(r)
  \/ RunRewriterExec(r)
  \/ CalculateMetrics(r)
  \/ CompileMkdir(r)
  \/ CompileStat(r)
  \/ CompileBackup(r)
  \/ CompileSwap(r)
  \/ CompileSwapUndo(r)
  \/ CompileBuild(r)
  \/ CompileBuildFailed(r)
  \/ CompileUnswap(r)
  \/ CompileUnswapUndo(r)
  \/ CompileRestoreStat(r)
  \/ CompileRestore(r)
  \/ CompileRestoreFailed(r)
  \/ TestsStat(r)
  \/ TestsBackup(r)
  \/ TestsSwap(r)
  \/ TestsSwapUndo(r)
  \/ TestsExec(r)
  \/ TestsUnswap(r)
  \/ TestsRestoreStat(r)
  \/ TestsRestore(r)
  \/ TestsReturn(r)
  \/ DeployStatNew(r)
  \/ DeployStatOrig(r)
  \/ DeployBackup(r)
  \/ DeployRename(r)
  \/ DeployFailed(r)
  \/ CleanUpRewritten(r)
  \/ CleanUpBackup(r)
  \/ CleanUpBinaryBackup(r)
  \/ CleanUpNewBinary(r)

Next == \E r \in Solo : Step(r)

Spec == Init /\ [][Next]_vars

\* One call of RewriteFile with the LLM strategy, for every input file.
InitRewrite ==
  /\ fs = [p \in Paths |-> IF p = SuspiciousPath THEN Original ELSE None]
  /\ ManagerIdle
  /\ faults = TRUE
  /\ stopped = ""
  /\ rwPc = "RF_read"
  /\ Strategy = "LLM"
  /\ pass = 1
  /\ content \in Contents
  /\ f = NoFile
  /\ idx = 1
  /\ functionsRewritten = FALSE
  /\ functionSource = EmptyText
  /\ rewrittenSource = EmptyText
  /\ rewritten = FALSE
  /\ err = "nil"
  /\ rwResult = EmptyText
  /\ rwErr = "nil"
  /\ outcome = <<>>
  /\ LLMIdle
  /\ MetricsIdle

NextRewrite ==
  \/ RewriteFile
  \/ RewriteContentParse
  \/ RewriteLoop
  \/ RewriteGetSource
  \/ RewriteCall
  \/ RewriteResponse
  \/ RewriteContentStrategy
  \/ RewriteContentPrint

SpecRewrite == InitRewrite /\ [][NextRewrite]_vars

\* RewriteFile with the function comment strategy (NewRewriter), the output
\* fed back into RewriteContent.
InitAnnotate ==
  /\ fs = [p \in Paths |-> IF p = SuspiciousPath THEN Original ELSE None]
  /\ ManagerIdle
  /\ faults = TRUE
  /\ stopped = ""
  /\ rwPc = "RF_read"
  /\ Strategy = "FunctionComment"
  /\ pass = 1
  /\ content \in Contents
  /\ f = NoFile
  /\ idx = 1
  /\ functionsRewritten = FALSE
  /\ functionSource = EmptyText
  /\ rewrittenSource = EmptyText
  /\ rewritten = FALSE
  /\ err = "nil"
  /\ rwResult = EmptyText
  /\ rwErr = "nil"
  /\ outcome = <<>>
  /\ LLMIdle
  /\ MetricsIdle

NextAnnotate ==
  \/ RewriteFile
  \/ RewriteContentParse
  \/ FunctionCommentRewrite
  \/ RewriteContentStrategy
  \/ RewriteContentPrint
  \/ RewriteAgain

SpecAnnotate == InitAnnotate /\ [][NextAnnotate]_vars

\* One call of callGeminiLLM, for every sequence of service outcomes.
InitLLMCall ==
  /\ fs = [p \in Paths |-> IF p = SuspiciousPath THEN Original ELSE None]
  /\ ManagerIdle
  /\ faults = TRUE
  /\ stopped = ""
  /\ RewriterIdle
  /\ MetricsIdle
  /\ llmPc = "LC_setup"
  /\ attempt = 0
  /\ sendErr = "nil"
  /\ llmResp = NoResp
  /\ sends = 0
  /\ waits = <<>>
  /\ llmResult = <<>>
  /\ llmErr = "nil"

NextLLMCall ==
  \/ LLMSetup
  \/ LLMSend
  \/ LLMSleep
  \/ LLMCheck

SpecLLMCall == InitLLMCall /\ [][NextLLMCall]_vars

\* The call runs on: no step of it waits for anything but the service's
\* answer and the sleep's end.
FairSpecLLMCall == SpecLLMCall /\ WF_vars(NextLLMCall)

\* One call of a function of package metrics, for every input.
InitMetrics ==
  /\ fs = [p \in Paths |-> IF p = SuspiciousPath THEN Original ELSE None]
  /\ ManagerIdle
  /\ faults = TRUE
  /\ stopped = ""
  /\ RewriterIdle
  /\ LLMIdle
  /\ mtPc = "call"
  /\ mtRet = <<>>
  /\ \/ /\ mtCall = "CalculateMetrics"
        /\ mtArgs \in {<<c>> : c \in MetricsFiles \cup {None}}
     \/ /\ mtCall = "CalculateFunctionalEquivalence"
        /\ mtArgs \in (0..MaxTests) \X (0..MaxTests)
     \/ /\ mtCall = "CalculateDeltaMetrics"
        /\ mtArgs \in {<<MetricsOf(o), MetricsOf(m)>> : o, m \in MetricValues}

NextMetrics ==
  \/ CallCalculateMetrics
  \/ CallCalculateFunctionalEquivalence
  \/ CallCalculateDeltaMetrics

SpecMetrics == InitMetrics /\ [][NextMetrics]_vars

\* ------------------------------------------------------------- properties
\* Stage `stage` of runner r has just returned to Run / dryRunProcess.
Returned(r, stage) ==
  /\ pc[r] = "run"
  /\ invoked[r] # <<>>
  /\ invoked[r][Len(invoked[r])].stage = stage

\* The returned stage did `op` with outcome ok.
Did(r, op, ok) == \E i \in DOMAIN hist[r] : hist[r][i].op = op /\ hist[r][i].ok = ok

Tried(r, op) == \E i \in DOMAIN hist[r] : hist[r][i].op = op

RenameOps ==
  {"backup", "swap", "unswap", "restore", "keep rewritten",
   "backup binary", "deploy", "restore binary"}

\* Every rename the stage attempted succeeded.
AllRenamesOk(r) ==
  \A i \in DOMAIN hist[r] : hist[r][i].op \in RenameOps => hist[r][i].ok

\* op1 was attempted and op2 was attempted after it.
TriedInOrder(r, op1, op2) ==
  \E i, j \in DOMAIN hist[r] : i < j /\ hist[r][i].op = op1 /\ hist[r][j].op = op2

\* C1: when the build fails inside CompileRewritten, the original source
\* existed at entry and every rename succeeded, CompileRewritten returns the
\* compilation error with the original path holding its content at entry (the
\* original), not the rewritten content that was built.
C1_BuildFailureRestoresOriginal ==
  \A r \in Solo :
    ( /\ Returned(r, "CompileRewritten")
      /\ Did(r, "build", FALSE)
      /\ entry[r][SuspiciousPath] # None
      /\ AllRenamesOk(r) )
    => /\ LastResult(r) = "compilation failed"
       /\ fs[SuspiciousPath] = entry[r][SuspiciousPath]
       /\ \A i \in DOMAIN hist[r] :
            hist[r][i].op = "build" => fs[SuspiciousPath] # hist[r][i].src

C1_Witness ==
  \E r \in Solo :
    /\ Returned(r, "CompileRewritten")
    /\ Did(r, "build", FALSE)
    /\ AllRenamesOk(r)
    /\ entry[r][SuspiciousPath] = Original
    /\ fs[SuspiciousPath] = Original

\* C2: once CompileRewritten has swapped the rewritten file in and invoked the
\* build, it performs step (4) (move it back to OutputPath) and step (5)
\* (restore the backup) before returning, whether the build succeeded or
\* failed; after a build failure the staged file is at OutputPath again.
\* (Stated for the stages in which every rename succeeded.)
C2_BothStepsAfterBuild ==
  \A r \in Solo :
    (Returned(r, "CompileRewritten") /\ Tried(r, "build") /\ AllRenamesOk(r))
    => /\ TriedInOrder(r, "build", "unswap")
       /\ TriedInOrder(r, "unswap", "restore")
       /\ (Did(r, "build", FALSE) => Exists(OutputPath(r)))

C4_TestsGateSuccess ==
  \A r \in Solo :
    Returned(r, "RunTests") =>
      /\ LastResult(r) = "nil" =>
           \E i \in DOMAIN hist[r] :
             /\ hist[r][i].op = "test" /\ hist[r][i].ok
             /\ hist[r][i].src = entry[r][OutputPath(r)]
             /\ hist[r][i].src.kind = "src" /\ hist[r][i].src # Original
      /\ Did(r, "test", FALSE) =>
           /\ LastResult(r) = "tests failed on rewritten code"
           /\ TriedInOrder(r, "test", "unswap")
           /\ entry[r][SuspiciousPath] # None => TriedInOrder(r, "unswap", "restore")
           /\ AllRenamesOk(r) =>
                /\ fs[OutputPath(r)] = entry[r][OutputPath(r)]
                /\ fs[SuspiciousPath] = entry[r][SuspiciousPath]

C4_Witness ==
  \E r \in Solo :
    /\ Returned(r, "RunTests")
    /\ Did(r, "test", FALSE)
    /\ LastResult(r) = "tests failed on rewritten code"
    /\ AllRenamesOk(r)
    /\ fs[SuspiciousPath] = Original
    /\ Exists(OutputPath(r))

\* C5: Run calls the stages in the order RunRewriter, CalculateMetrics,
\* CompileRewritten, RunTests, DeployBinary, CleanUp; a stage is called only
\* if every earlier one returned nil; Run's error names the failing stage,
\* which is the last one called.
C5_Order ==
  <<"RunRewriter", "CalculateMetrics", "CompileRewritten", "RunTests",
    "DeployBinary", "CleanUp">>

C5_Message ==
  <<"rewriter step failed", "metrics calculation failed", "compilation step failed",
    "testing step failed", "deployment step failed", "cleanup step failed">>

C5_StagesInOrder ==
  \A r \in Solo :
    (~cfg[r].dry /\ pc[r] # "idle") =>
      LET n == Len(invoked[r]) IN
        /\ n <= Len(C5_Order)
        /\ \A i \in 1..n : invoked[r][i].stage = C5_Order[i]
        /\ \A i \in 1..(n - 1) : invoked[r][i].result = "nil"
        /\ (pc[r] = "done" /\ runErr[r] # "nil") =>
             /\ n >= 1
             /\ invoked[r][n].result \notin {"nil", "pending"}
             /\ runErr[r] = C5_Message[n]
        /\ (pc[r] = "done" /\ runErr[r] = "nil") =>
             /\ n = Len(C5_Order)
             /\ invoked[r][n].result = "nil"

\* A run that failed in RunTests: four stages called, none after it.
C5_Witness ==
  \E r \in Solo :
    /\ ~cfg[r].dry
    /\ pc[r] = "done"
    /\ runErr[r] = "testing step failed"
    /\ Len(invoked[r]) = 4
    /\ invoked[r][3].result = "nil"

\* C6 as claimed: if a binary is deployed when DeployBinary starts, then when
\* it returns, for every combination of rename outcomes, a binary is at the
\* deployed path: the new one on success, the previous one otherwise.
C6_BinaryAlwaysDeployed ==
  \A r \in Solo :
    (Returned(r, "DeployBinary") /\ entry[r][OrigBinary] # None) =>
      /\ Exists(OrigBinary)
      /\ fs[OrigBinary] =
           IF LastResult(r) = "nil" THEN entry[r][NewBinary] ELSE entry[r][OrigBinary]

\* C6 as amended: on success the new binary is deployed and the previous one
\* is at the .backup path; on an error the previous binary is at the deployed
\* path, unless the deploy rename and the rename restoring the backup both
\* failed: then the deployed path is empty and the previous binary is at the
\* .backup path.
C6_BinaryDeployedOrBackedUp ==
  \A r \in Solo :
    (Returned(r, "DeployBinary") /\ entry[r][OrigBinary] # None) =>
      IF LastResult(r) = "nil"
      THEN /\ fs[OrigBinary] = entry[r][NewBinary]
           /\ fs[BackupBinary] = entry[r][OrigBinary]
           /\ TriedInOrder(r, "backup binary", "deploy")
      ELSE \/ fs[OrigBinary] = entry[r][OrigBinary]
           \/ /\ fs[OrigBinary] = None
              /\ fs[BackupBinary] = entry[r][OrigBinary]
              /\ Did(r, "deploy", FALSE)
              /\ Did(r, "restore binary", FALSE)

\* The deploy rename failed and the previous binary was restored.
C6_Witness ==
  \E r \in Solo :
    /\ Returned(r, "DeployBinary")
    /\ entry[r][OrigBinary] # None
    /\ Did(r, "deploy", FALSE)
    /\ Did(r, "restore binary", TRUE)
    /\ fs[OrigBinary] = entry[r][OrigBinary]

\* C7: in a dry run DeployBinary is never called, no step changes the file at
\* the deployed binary path, and the build changes no file but the .new one.
C7_DryRunNeverDeploys ==
  /\ [](\A r \in Solo :
          cfg[r].dry => \A i \in DOMAIN invoked[r] : invoked[r][i].stage # "DeployBinary")
  /\ [][\A r \in Solo :
          (cfg[r].dry /\ pc[r] \notin {"idle", "done"}) =>
            /\ fs'[OrigBinary] = fs[OrigBinary]
            /\ pc[r] = "CR_build" =>
                 \A p \in Paths \ {NewBinary} : fs'[p] = fs[p]]_vars

\* A dry run that succeeded: the binary was built to the .new path.
C7_Witness ==
  \E r \in Solo :
    /\ cfg[r].dry
    /\ pc[r] = "done"
    /\ runErr[r] = "nil"
    /\ Exists(NewBinary)
    /\ \E i \in DOMAIN invoked[r] : invoked[r][i].stage = "CompileRewritten"

\* C8: every successful dry run has called CalculateMetrics after RunRewriter
\* and before CompileRewritten.
C8_DryRunRunsMetrics ==
  \A r \in Solo :
    (cfg[r].dry /\ pc[r] = "done" /\ runErr[r] = "nil") =>
      \E i, j, k \in DOMAIN invoked[r] :
        /\ i < j /\ j < k
        /\ invoked[r][i].stage = "RunRewriter"
        /\ invoked[r][j].stage = "CalculateMetrics"
        /\ invoked[r][k].stage = "CompileRewritten"

\* C9: RunRewriter runs the external rewriter iff ForceRewrite is set or no
\* file is at OutputPath; with a staged file and ForceRewrite off it returns
\* nil having run nothing and left the staged file as it was.
C9_RewriterOnlyWhenNeeded ==
  \A r \in Solo :
    Returned(r, "RunRewriter") =>
      /\ Tried(r, "rewriter") <=> (cfg[r].ForceRewrite \/ entry[r][OutputPath(r)] = None)
      /\ (~cfg[r].ForceRewrite /\ entry[r][OutputPath(r)] # None) =>
           /\ LastResult(r) = "nil"
           /\ hist[r] = <<>>
           /\ fs = entry[r]

C9_Witness ==
  \E r \in Solo :
    /\ Returned(r, "RunRewriter")
    /\ ~cfg[r].ForceRewrite
    /\ entry[r][OutputPath(r)] # None
    /\ LastResult(r) = "nil"
    /\ ~Tried(r, "rewriter")

\* C10: after a Run with ForceRewrite off that had its staged file and failed
\* in a later stage, the next Run (same flags, no rename having failed) finds
\* the staged file at OutputPath and does not run the rewriter again.
C10_RetrySkipsRewriter ==
  \A r \in Solo :
    ( /\ Returned(r, "RunRewriter")
      /\ prev[r].failedAfterStaging
      /\ ~cfg[r].dry /\ ~cfg[r].ForceRewrite /\ cfg[r].custom = prev[r].custom
      /\ ~renameFailed )
    => /\ ~Tried(r, "rewriter")
       /\ Exists(OutputPath(r))

\* C11: every failed backup or restore rename in CompileRewritten or RunTests
\* makes the stage return an error, so that Run never goes on to DeployBinary
\* after one.
C11_BackupRestoreFailureIsFatal ==
  \A r \in Solo :
    ( /\ Returned(r, "CompileRewritten") \/ Returned(r, "RunTests")
      /\ Did(r, "backup", FALSE) \/ Did(r, "restore", FALSE) )
    => LastResult(r) \notin {"nil", "pending"}

\* C12: CalculateMetrics changes no file; when it fails inside Run, Run
\* returns the metrics error with the files as they were when CalculateMetrics
\* was called, the original source in place, and no build, test or deploy
\* stage called.
C12_MetricsFailureBeforeAnyMutation ==
  /\ [](\A r \in Solo :
          ~cfg[r].dry =>
            \A i \in DOMAIN invoked[r] :
              ( /\ invoked[r][i].stage = "CalculateMetrics"
                /\ invoked[r][i].result \notin {"nil", "pending"} )
              => /\ i = Len(invoked[r])
                 /\ \A j \in DOMAIN invoked[r] :
                      invoked[r][j].stage \notin
                        {"CompileRewritten", "RunTests", "DeployBinary"}
                 /\ fs = entry[r]
                 /\ pc[r] = "done" => runErr[r] = "metrics calculation failed")
  /\ [][\A r \in Solo :
          (invoked[r] # <<>>
           /\ invoked[r][Len(invoked[r])].stage \in {"RunRewriter", "CalculateMetrics"})
          => /\ fs'[SuspiciousPath] = fs[SuspiciousPath]
             /\ pc[r] = "CM_calc" => fs' = fs]_vars

\* Run returned the metrics error; the original source is where it was.
C12_Witness ==
  \E r \in Solo :
    /\ ~cfg[r].dry
    /\ pc[r] = "done"
    /\ runErr[r] = "metrics calculation failed"
    /\ Len(invoked[r]) = 2
    /\ fs[SuspiciousPath] = Original

RemoveOps ==
  {"remove rewritten", "remove backup", "remove binary backup", "remove new binary"}

\* Every removal CleanUp attempted succeeded.
AllRemovalsOk(r) ==
  \A i \in DOMAIN hist[r] : hist[r][i].op \in RemoveOps => hist[r][i].ok

C14_CleanUpNeverFails ==
  \A r \in Solo :
    /\ Returned(r, "CleanUp") =>
         /\ LastResult(r) = "nil"
         /\ fs[OrigBinary] = entry[r][OrigBinary]
         /\ fs[SuspiciousPath] = entry[r][SuspiciousPath]
    /\ ( /\ pc[r] = "done"
         /\ \E i \in DOMAIN invoked[r] :
              invoked[r][i].stage = "DeployBinary" /\ invoked[r][i].result = "nil" )
       => runErr[r] = "nil"

\* CleanUp returned nil although a removal failed.
C14_Witness ==
  \E r \in Solo :
    /\ Returned(r, "CleanUp")
    /\ ~AllRemovalsOk(r)
    /\ LastResult(r) = "nil"
    /\ Exists(OrigBinary)

Parsed == rwPc \notin {"idle", "RF_read", "RC_parse"} /\ f # NoFile

\* The loop received a response text for declaration i.
Responded(i) ==
  i \in DOMAIN outcome /\ outcome[i].how \in {"unchanged", "unparsable", "no function", "spliced"}

\* The text that was sent for declaration i.
Sent(i) == Text(FALSE, TRUE, <<content.decls[i]>>)

Unparsable(t) == ~(t.pkg /\ t.wf)
NoFunction(t) == \A j \in DOMAIN t.decls : t.decls[j].kind # "func"

\* RewriteContent returned the printed AST (with the build tag).
ReturnedRewritten ==
  rwPc = "returned" /\ rwResult.head = <<"// +build rewritten">>

\* C16: whatever the service returns, every declaration of the file keeps its
\* name, receiver, parameter list and result list through LLMStrategy.Rewrite,
\* in the AST and in the text RewriteContent returns.
C16_SignaturePreserved ==
  /\ Parsed =>
       /\ Len(f.Decls) = Len(content.decls)
       /\ \A i \in DOMAIN f.Decls :
            /\ f.Decls[i].kind = content.decls[i].kind
            /\ f.Decls[i].sig.name = content.decls[i].sig.name
            /\ f.Decls[i].sig.recv = content.decls[i].sig.recv
            /\ f.Decls[i].sig.params = content.decls[i].sig.params
            /\ f.Decls[i].sig.results = content.decls[i].sig.results
  /\ ReturnedRewritten =>
       /\ Len(rwResult.decls) = Len(content.decls)
       /\ \A i \in DOMAIN rwResult.decls : rwResult.decls[i].sig = content.decls[i].sig

\* A response declaring another signature was spliced in: the body is the
\* response's, the signature the original's.
C16_Witness ==
  \E i \in DOMAIN outcome :
    /\ ReturnedRewritten
    /\ outcome[i].how = "spliced"
    /\ FirstFunc(outcome[i].resp.decls).sig = SigH
    /\ rwResult.decls[i].body = "new.body"
    /\ rwResult.decls[i].sig = SigF

\* C17: when the response for a function does not parse, or parses without a
\* function declaration, the function keeps its body, gets one diagnostic
\* comment (unless the response is the very text that was sent), and the loop
\* goes on to the next declaration.
C17_BadResponseKeepsBody ==
  \A i \in DOMAIN outcome :
    (Responded(i) /\ (Unparsable(outcome[i].resp) \/ NoFunction(outcome[i].resp))) =>
      /\ f.Decls[i].body = content.decls[i].body
      /\ outcome[i].resp # Sent(i) =>
           f.Decls[i].doc =
             Append(content.decls[i].doc,
                    IF Unparsable(outcome[i].resp)
                      THEN "// Failed to parse rewritten function code"
                      ELSE "// Failed to find function in the rewritten code")
      /\ idx > i
      /\ err # "nil" =>
           \E j \in DOMAIN outcome :
             j > i /\ outcome[j].how \in {"extract failed", "call failed"}
      /\ ReturnedRewritten => rwResult.decls[i].body = content.decls[i].body

\* A bare function (no package clause) came back for the first function and
\* was not spliced in; the second function was then rewritten.
C17_Witness ==
  /\ ReturnedRewritten
  /\ Len(outcome) = 2
  /\ outcome[1].how = "unparsable"
  /\ outcome[1].resp.decls # <<>>
  /\ outcome[1].resp.decls[1].body = "new.body"
  /\ rwResult.decls[1].body = "F.body"
  /\ outcome[2].how = "spliced"

\* C18: a response whose function declaration has another signature than the
\* original function is not accepted: the original body is kept.
C18_SignatureValidated ==
  \A i \in DOMAIN outcome :
    ( /\ Responded(i)
      /\ ~Unparsable(outcome[i].resp)
      /\ ~NoFunction(outcome[i].resp)
      /\ FirstFunc(outcome[i].resp.decls).sig # content.decls[i].sig )
    => f.Decls[i].body = content.decls[i].body

\* C19: LLMStrategy.Rewrite returns a non-nil error only when extracting a
\* function's source fails; after a service failure for one function the
\* loop reaches the following declarations.
C19_OnlyExtractionAborts ==
  /\ (rwPc \in {"RC_strategy", "RC_print", "returned"} /\ err # "nil") =>
       err = "failed to extract function source"
  /\ \A i \in DOMAIN outcome :
       (outcome[i].how = "call failed" /\ rwPc = "returned") =>
         \A j \in DOMAIN outcome : j > i => outcome[j].how # "none"

\* C20: when the transformation of one function fails (service error,
\* unparsable response, no function in the response), the text RewriteContent
\* returns contains the bodies spliced into the other functions.
C20_SiblingsKept ==
  ( /\ rwPc = "returned"
    /\ \E j \in DOMAIN outcome :
         outcome[j].how \in {"call failed", "unparsable", "no function"}
    /\ \A m \in 1..Len(rwResult.trailer) :
         rwResult.trailer[m] # "// Failed to print rewritten code" )
  => \A i \in DOMAIN outcome :
       outcome[i].how = "spliced" =>
         /\ Len(rwResult.decls) >= i
         /\ rwResult.decls[i].body = FirstFunc(outcome[i].resp.decls).body
         /\ rwResult.head = <<"// +build rewritten">>

\* C21: RewriteFile and RewriteContent never return a non-nil error.
C21_NeverReturnsError ==
  rwPc = "returned" => rwErr = "nil"

\* The input text followed by one appended comment.
Fallback(message) == [content EXCEPT !.trailer = Append(@, message)]

\* C22: in every fallback case RewriteContent returns the exact input text
\* followed by one diagnostic comment, with a nil error; the strategy is not
\* run when parsing failed and the tree is not rendered when the strategy
\* returned an error or changed = false.
C22_FallbackKeepsInput ==
  /\ []((rwPc = "returned" /\ rwErr = "nil") =>
          /\ Unparsable(content) =>
               /\ rwResult = Fallback("// Failed to parse code for rewriting")
               /\ f = NoFile
          /\ (~Unparsable(content) /\ err # "nil") =>
               rwResult = Fallback("// Error during rewriting")
          /\ (~Unparsable(content) /\ err = "nil" /\ ~rewritten) =>
               rwResult = Fallback("// No changes made by the MetamorphLLM")
          /\ (rwResult.trailer # content.trailer) => rwResult.decls = content.decls)
  /\ [][ /\ (rwPc = "RC_parse" /\ Unparsable(content)) => rwPc' = "returned"
         /\ (rwPc = "RC_strategy" /\ (err # "nil" \/ ~rewritten)) => rwPc' = "returned"
         /\ (rwPc = "RC_print" /\ rwResult'.head = content.head) =>
              /\ rwErr' = "nil"
              /\ rwResult' \in { Fallback("// Failed to print rewritten code"),
                                 Fallback("// Processed by MetamorphLLM (no changes needed)") }
       ]_vars

\* The strategy returned an error after changing the tree; the text returned
\* is the input with the "Error during rewriting" comment.
C22_Witness ==
  /\ rwPc = "returned"
  /\ err # "nil"
  /\ functionsRewritten
  /\ f.Decls # content.decls
  /\ rwResult.decls = content.decls
  /\ rwResult.trailer = <<"// Error during rewriting">>

\* ------------------------------------------------------------- properties: function comment strategy
RECURSIVE Occurrences(_, _)
\* How many of the comment lines are the comment c.
Occurrences(lines, c) ==
  IF lines = <<>> THEN 0
  ELSE (IF Head(lines) = c THEN 1 ELSE 0) + Occurrences(Tail(lines), c)

RECURSIVE OccurrencesInDecls(_, _)
OccurrencesInDecls(decls, c) ==
  IF decls = <<>> THEN 0
  ELSE Occurrences(Head(decls).doc, c) + Occurrences(Head(decls).tail, c)
         + OccurrencesInDecls(Tail(decls), c)

\* Marker comments in a text.
Markers(t) ==
  Occurrences(t.head, "// This function was rewritten by MetamorphLLM")
    + OccurrencesInDecls(t.decls, "// This function was rewritten by MetamorphLLM")
    + Occurrences(t.trailer, "// This function was rewritten by MetamorphLLM")

\* Top-level function declarations of a text.
FuncCount(t) == Cardinality({i \in DOMAIN t.decls : t.decls[i].kind = "func"})

\* RewriteContent returned for a parsable input, no rendering having failed.
Rendered ==
  /\ rwPc = "returned"
  /\ rwErr = "nil"
  /\ ~Unparsable(content)
  /\ Occurrences(rwResult.trailer, "// Failed to print rewritten code") = 0

\* C23: for a program with N top-level functions the function comment
\* strategy reports changed = true iff N > 0 and the text RewriteContent
\* returns holds exactly N marker comments.
C23_OneMarkerPerFunction ==
  (Rendered /\ pass = 1) =>
    /\ rewritten = (FuncCount(content) > 0)
    /\ Markers(rwResult) = FuncCount(content)

\* C24: the second application, on the output of the first, parses its input
\* and returns a text with 2 x N marker comments.
C24_TwoPassesDoubleMarkers ==
  (Rendered /\ pass = 2) =>
    /\ f # NoFile
    /\ Markers(rwResult) = 2 * FuncCount(content)


\* C25: callGeminiLLM sends the request at most 5 times and terminates for
\* every sequence of service outcomes: it sends again only after a rate-limit
\* error, any other error ends the call at once with an error, a successful
\* response ends the loop at once, and 5 rate-limited attempts end in the
\* rate-limit-exceeded error.
C25_BoundedRetries ==
  /\ [](/\ sends <= 5
        /\ (llmPc = "returned" /\ sends = 5 /\ RateLimited(sendErr))
             => llmErr = "Gemini API rate limit exceeded after 5 retries")
  /\ [][/\ sends' # sends =>
             /\ sends' = sends + 1
             /\ sends > 0 => RateLimited(sendErr)
             /\ (sendErr' # "nil" /\ ~RateLimited(sendErr')) =>
                  /\ llmPc' = "returned"
                  /\ llmErr' = "error sending message to Gemini API"
             /\ sendErr' = "nil" => llmPc' = "LC_check"
        /\ llmPc = "returned" => UNCHANGED llmVars]_vars
  /\ <>(llmPc = "returned")

C25_Witness ==
  /\ llmPc = "returned"
  /\ sends = 5
  /\ waits = <<1, 2, 4, 8, 16>>
  /\ llmErr = "Gemini API rate limit exceeded after 5 retries"


\* A CalculateMetrics call that returned metrics.
Measured ==
  /\ mtPc = "returned"
  /\ mtCall = "CalculateMetrics"
  /\ mtRet.err = "nil"

\* The nodes of the measured file of the given kinds.
NodesOf(kinds) ==
  LET events == Inspect(mtArgs[1].file)
  IN {events[i] : i \in {j \in DOMAIN events : events[j].node.kind \in kinds}}

Dispatches == {"SwitchStmt", "TypeSwitchStmt", "SelectStmt"}

RECURSIVE SumOfArms(_)
SumOfArms(nodes) ==
  IF nodes = {} THEN 0
  ELSE LET e == CHOOSE x \in nodes : TRUE
           k == Len(BodyList(e.node))
       IN (IF k >= 1 THEN k - 1 ELSE 1) + SumOfArms(nodes \ {e})

\* C26: calculateCyclomaticComplexity returns 1, plus one for each if
\* statement, each for or range loop and each && or || operator, plus k-1 for
\* each switch, type switch or select with k >= 1 arms and exactly 1 for each
\* one with zero arms.
C26_CyclomaticCounts ==
  Measured =>
    mtRet.metrics.CC =
      1 + Cardinality(NodesOf({"IfStmt"}))
        + Cardinality(NodesOf({"ForStmt", "RangeStmt"}))
        + Cardinality({e \in NodesOf({"BinaryExpr"}) : e.node.tok \in {"&&", "||"}})
        + SumOfArms(NodesOf(Dispatches))

IsPrefix(p, q) == Len(p) <= Len(q) /\ SubSeq(q, 1, Len(p)) = p

\* The branching constructs in whose body the node lies.
Enclosing(e) ==
  {a \in NodesOf(ControlKinds) :
     a.id # e.id /\ IsPrefix(Append(a.id, a.node.body), e.id)}

RECURSIVE SumOfDepths(_)
SumOfDepths(nodes) ==
  IF nodes = {} THEN 0
  ELSE LET e == CHOOSE x \in nodes : TRUE
       IN Cardinality(Enclosing(e)) + SumOfDepths(nodes \ {e})

\* What the measured file scores when every if, loop and dispatch statement
\* is at nesting level 0.
FlatScore ==
  LET events == Inspect(mtArgs[1].file)
      flat == {<<events[i].id, 0>> : i \in DOMAIN events}
  IN Sum([i \in DOMAIN events |-> CognitiveOf(events[i], flat)])

\* C27: calculateCognitiveComplexity adds 1 + d for each if, loop or dispatch
\* statement, d the number of enclosing branching constructs in whose body
\* the statement lies: an if directly inside the body of a top-level for loop
\* adds 2 while the loop adds 1.
C27_NestingPenalty ==
  Measured => mtRet.metrics.CogC = FlatScore + SumOfDepths(NodesOf(ControlKinds))

\* The measured file has one function, holding one if statement and one
\* loop whose body holds one if statement, and nothing else that counts.
GoldenCase ==
  /\ Measured
  /\ Cardinality(NodesOf({"FuncDecl"})) = 1
  /\ NodesOf(Dispatches \cup {"BranchStmt", "FuncLit"}) = {}
  /\ \A e \in NodesOf({"BinaryExpr"}) : e.node.tok \notin {"&&", "||"}
  /\ \A e \in NodesOf({"IfStmt"}) : Len(e.node.kids) = e.node.body
  /\ Cardinality(NodesOf({"ForStmt", "RangeStmt"})) = 1
  /\ \A e \in NodesOf({"ForStmt", "RangeStmt"}) : Enclosing(e) = {}
  /\ Cardinality(NodesOf({"IfStmt"})) = 2
  /\ \E e1, e2 \in NodesOf({"IfStmt"}) :
       /\ Enclosing(e1) = {}
       /\ Enclosing(e2) = NodesOf({"ForStmt", "RangeStmt"})

\* C28: for a file whose only function holds a single if statement and a
\* single loop whose body holds one nested if, CalculateMetrics reports
\* cyclomatic complexity 4 and cognitive complexity 3.
C28_GoldenCase ==
  GoldenCase => mtRet.metrics.CC = 4 /\ mtRet.metrics.CogC = 3

C28_Witness ==
  /\ GoldenCase
  /\ mtRet.metrics.CC = 4
  /\ mtRet.metrics.CogC = 3


\* r is a / b * 100, for b not zero.
IsPercentOf(r, a, b) == r.den > 0 /\ r.num * b = a * 100 * r.den

DeltasReturned == mtPc = "returned" /\ mtCall = "CalculateDeltaMetrics"

GoldenDeltas ==
  /\ DeltasReturned
  /\ mtArgs[1] = MetricsOf([LOC |-> 100, CC |-> 10, CogC |-> 15])
  /\ mtArgs[2] = MetricsOf([LOC |-> 120, CC |-> 12, CogC |-> 18])

\* C29: CalculateDeltaMetrics returns (rewritten - original) / original * 100
\* for each of LOC, CC and CogC; for original {100, 10, 15} and rewritten
\* {120, 12, 18} all three deltas are exactly 20.
C29_DeltaPercentages ==
  DeltasReturned =>
    LET original == mtArgs[1]
        metamorphic == mtArgs[2]
    IN /\ original.LOC # 0 =>
            IsPercentOf(mtRet.locDelta, metamorphic.LOC - original.LOC, original.LOC)
       /\ original.CC # 0 =>
            IsPercentOf(mtRet.ccDelta, metamorphic.CC - original.CC, original.CC)
       /\ original.CogC # 0 =>
            IsPercentOf(mtRet.cogCDelta, metamorphic.CogC - original.CogC, original.CogC)
       /\ GoldenDeltas =>
            /\ mtRet.locDelta = [num |-> 20, den |-> 1]
            /\ mtRet.ccDelta = [num |-> 20, den |-> 1]
            /\ mtRet.cogCDelta = [num |-> 20, den |-> 1]

C29_Witness ==
  /\ GoldenDeltas
  /\ mtRet.locDelta = [num |-> 20, den |-> 1]

EquivalenceReturned == mtPc = "returned" /\ mtCall = "CalculateFunctionalEquivalence"

\* C30: CalculateFunctionalEquivalence(passed, total) returns
\* passed / total * 100 for every total > 0 (0 when passed is 0, 100 when
\* passed equals total) and 0 when total is 0, never dividing by zero.
C30_FunctionalEquivalence ==
  EquivalenceReturned =>
    LET passedTests == mtArgs[1]
        totalTests == mtArgs[2]
    IN /\ mtRet.den # 0
       /\ totalTests > 0 => IsPercentOf(mtRet, passedTests, totalTests)
       /\ (totalTests > 0 /\ passedTests = 0) => mtRet = [num |-> 0, den |-> 1]
       /\ (totalTests > 0 /\ passedTests = totalTests) => mtRet = [num |-> 100, den |-> 1]
       /\ totalTests = 0 => mtRet = [num |-> 0, den |-> 1]

C30_Witness ==
  /\ EquivalenceReturned
  /\ mtArgs[2] = 0
  /\ mtArgs[1] > 0
  /\ mtRet = [num |-> 0, den |-> 1]


\* C32: after the rate-limited attempt with zero-based index a the call waits
\* min(2^a, 60) seconds: 1, 2, 4 and 8 seconds before attempts 2, 3, 4 and 5;
\* the 60-second cap is never reached.
C32_BackoffSchedule ==
  /\ [](/\ \A i \in DOMAIN waits :
             /\ waits[i] = (IF 2^(i - 1) < 60 THEN 2^(i - 1) ELSE 60)
             /\ waits[i] < 60
        /\ (sends >= 2 /\ Len(waits) >= sends - 1) =>
             SubSeq(waits, 1, sends - 1) = SubSeq(<<1, 2, 4, 8>>, 1, sends - 1))
  /\ [][/\ sends' = sends + 1 /\ sends >= 1 => Len(waits) = sends
        /\ waits' # waits =>
             /\ RateLimited(sendErr)
             /\ Len(waits) = sends - 1
             /\ waits' = Append(waits, IF 2^(sends - 1) < 60 THEN 2^(sends - 1) ELSE 60)]_vars

C32_Witness ==
  /\ llmPc = "LC_send"
  /\ sends = 4
  /\ waits = <<1, 2, 4, 8>>

\* The response text without the white space around it.
Trimmed(t) ==
  LET at == {i \in DOMAIN t : t[i] # " "} IN
    IF at = {} THEN <<>>
    ELSE SubSeq(t, CHOOSE i \in at : \A j \in at : i <= j,
                   CHOOSE i \in at : \A j \in at : j <= i)

Fences == {"~~~go", "~~~"}

\* What the claim says of a response text: without the leading fence,
\* without everything from the last fence on, trimmed.
Stripped(t) ==
  LET r == Trimmed(t) IN
    IF r = <<>> \/ r[1] \notin Fences THEN r
    ELSE LET at == {i \in 2..Len(r) : r[i] \in Fences}
             end == IF at = {} THEN Len(r)
                    ELSE (CHOOSE i \in at : \A j \in at : j <= i) - 1
         IN Trimmed(SubSeq(r, 2, end))

Answered == llmPc = "returned" /\ sendErr = "nil" /\ sends > 0 /\ llmResp.parts

\* C34: callGeminiLLM returns the response text with a leading fence removed,
\* everything from the last fence onward removed and surrounding white space
\* trimmed; a response without a leading fence is returned trimmed and
\* otherwise unchanged; a result shorter than 10 characters is rejected with
\* an error instead of being returned.
C34_FencesStripped ==
  Answered =>
    IF TextLen(Stripped(llmResp.text)) < 10
      THEN /\ llmErr = "received suspiciously short response from Gemini API"
           /\ llmResult = <<>>
      ELSE /\ llmErr = "nil"
           /\ llmResult = Stripped(llmResp.text)

C34_Witness ==
  /\ Answered
  /\ llmResp.text = <<"~~~go", "code.", "code.", "~~~">>
  /\ llmResult = <<"code.", "code.">>
  /\ llmErr = "nil"

\* C39: a backoff wait follows every rate-limited attempt, the fifth and
\* last one included: when all 5 attempts are rate-limited the call performs
\* 5 waits (1, 2, 4, 8 and 16 seconds) and only then returns the
\* rate-limit-exceeded error, with no attempt after the last wait.
C39_WaitAfterLastAttempt ==
  /\ [](/\ llmErr = "Gemini API rate limit exceeded after 5 retries" =>
             sends = 5 /\ waits = <<1, 2, 4, 8, 16>>
        /\ (llmPc \in {"LC_send", "LC_check", "returned"} /\ sends > 0
             /\ RateLimited(sendErr)) => Len(waits) = sends
        /\ Len(waits) = 5 => sends = 5)
  /\ [][Len(waits) = 5 => sends' = sends]_vars

C39_Witness ==
  /\ llmPc = "LC_check"
  /\ sends = 5
  /\ Len(waits) = 5
  /\ waits[5] = 16
  /\ llmErr = "nil"


\* Reading one line word by word from word i on, inside a block comment or
\* not: whether the line holds anything but white space and comments, and
\* whether the line ends inside a block comment.
RECURSIVE ScanLine(_, _, _, _)
ScanLine(line, i, inBlock, code) ==
  IF i > Len(line) THEN [code |-> code, inBlock |-> inBlock]
  ELSE IF inBlock THEN ScanLine(line, i + 1, line[i] # "*/", code)
  ELSE IF line[i] = "//" THEN [code |-> code, inBlock |-> FALSE]
  ELSE IF line[i] = "/*" THEN ScanLine(line, i + 1, TRUE, code)
  ELSE ScanLine(line, i + 1, FALSE, code \/ line[i] # " ")

\* The lines from line i on that are neither blank nor comment-only.
RECURSIVE CodeLines(_, _, _)
CodeLines(lines, i, inBlock) ==
  IF i > Len(lines) THEN 0
  ELSE LET r == ScanLine(lines[i], 1, inBlock, FALSE)
       IN (IF r.code THEN 1 ELSE 0) + CodeLines(lines, i + 1, r.inBlock)

\* C35: calculateLOC returns the number of physical lines of the file text
\* that are neither blank nor comment-only; a line inside a multi-line block
\* comment that holds only comment text is not counted.
C35_CommentLinesNotCounted ==
  Measured => mtRet.metrics.LOC = CodeLines(Lines(mtArgs[1]), 1, FALSE)


\* C33: when the response is textually identical to the function source that
\* was sent, LLMStrategy.Rewrite leaves the function's body unchanged,
\* attaches the "analyzed but no changes required" marker comment, continues
\* with the next function and counts the function toward changed = true.
C33_IdenticalResponseMarked ==
  /\ [][(rwPc = "LS_response" /\ rewrittenSource = functionSource) =>
          /\ f'.Decls[idx].body = f.Decls[idx].body
          /\ f'.Decls[idx].sig = f.Decls[idx].sig
          /\ f'.Decls[idx].doc =
               Append(f.Decls[idx].doc,
                      "// This function was rewritten by Gemini LLM (analyzed but no changes required)")
          /\ functionsRewritten'
          /\ rwPc' = "LS_loop"
          /\ idx' = idx + 1]_vars
  /\ []((/\ rwPc = "RC_strategy"
         /\ err = "nil"
         /\ \E i \in DOMAIN outcome :
              outcome[i].how \notin {"none", "skipped"} /\ outcome[i].resp = Sent(i))
        => rewritten)

C33_Witness ==
  /\ rwPc = "RC_strategy"
  /\ err = "nil"
  /\ rewritten
  /\ Len(outcome) = 2
  /\ outcome[1].how = "unparsable"
  /\ outcome[2].resp = Sent(2)
  /\ f.Decls[2].body = "G.body"

\* The response for declaration i failed to parse or held no function.
Diagnosed(i) == i \in DOMAIN outcome /\ outcome[i].how \in {"unparsable", "no function"}

DiagnosticComments ==
  {"// Failed to parse rewritten function code",
   "// Failed to find function in the rewritten code"}

\* The comment lines of declaration i in the text returned.
RenderedComments(i) ==
  {rwResult.decls[i].doc[k] : k \in DOMAIN rwResult.decls[i].doc}
    \cup {rwResult.decls[i].tail[k] : k \in DOMAIN rwResult.decls[i].tail}

\* RewriteContent returned after the strategy returned without error and
\* the printing did not fail.
ReturnedFromStrategy ==
  /\ rwPc = "returned"
  /\ rwErr = "nil"
  /\ err = "nil"
  /\ outcome # <<>>
  /\ \A k \in DOMAIN rwResult.trailer :
       rwResult.trailer[k] \notin {"// Failed to print rewritten code",
                                   "// Failed to parse code for rewriting"}

\* C40: a function whose response failed to parse or held no function
\* declaration does not count toward changed: if that happens for every
\* function of the file, RewriteContent returns the original text plus the
\* "No changes made" comment and no diagnostic comment appears in the output;
\* if another function was accepted or marked unchanged, the diagnostic
\* comments appear in the rendered output.
C40_DiagnosticsRendered ==
  ReturnedFromStrategy =>
    /\ (/\ \E i \in DOMAIN outcome : Diagnosed(i)
        /\ \A i \in DOMAIN outcome : outcome[i].how \in {"skipped", "unparsable", "no function"})
         => /\ ~rewritten
            /\ rwResult = [content EXCEPT
                             !.trailer = Append(@, "// No changes made by the MetamorphLLM")]
    /\ (\E i \in DOMAIN outcome : outcome[i].how \in {"spliced", "unchanged"})
         => \A j \in DOMAIN outcome :
              Diagnosed(j) => RenderedComments(j) \cap DiagnosticComments # {}


\* C37: at every state during and after the first Run, CleanUp included, and
\* for every combination of rename failures, the original source content is
\* at the original source path or at its .backup path.
C37_OriginalNeverLost ==
  \A r \in Solo :
    (runs[r] = 1 /\ ~cfg[r].dry) =>
      (fs[SuspiciousPath] = Original \/ fs[BackupFile] = Original)

\* The operations of the current stage hold a successful rewriter command.
RewriterRan(r) ==
  \E k \in DOMAIN hist[r] : hist[r][k].op = "rewriter" /\ hist[r][k].ok

\* C38: after RunRewriter returned success having invoked the rewriter, the
\* staged rewritten file exists at OutputPath, for every configured
\* OutputPath.
C38_StagedAtOutputPath ==
  \A r \in Solo :
    (/\ pc[r] = "run"
     /\ Len(invoked[r]) = 1
     /\ invoked[r][1].stage = "RunRewriter"
     /\ invoked[r][1].result = "nil"
     /\ RewriterRan(r))
      => Exists(OutputPath(r))


\* ------------------------------------------------------------- two processes
\* Two manager processes started with -dry-run on the same source, staging
\* and backup paths: each has found the staged file, so RunRewriter has
\* returned nil, and goes on to CompileRewritten and RunTests; their steps
\* interleave.
SharedConfig ==
  [dry |-> TRUE, ForceRewrite |-> FALSE, KeepRewritten |-> TRUE, custom |-> FALSE]

StagedFiles ==
  [p \in Paths |->
     IF p = SuspiciousPath THEN Original
     ELSE IF p = DefaultOutput THEN Rewritten(1)
     ELSE None]

\* Both processes are in dryRunProcess after RunRewriter; a rename fails only
\* when its source is missing.
InitConcurrent ==
  /\ fs = StagedFiles
  /\ nextVer = 2
  /\ pc = [r \in Runners |-> "run"]
  /\ cfg = [r \in Runners |-> SharedConfig]
  /\ testErr = [r \in Runners |-> FALSE]
  /\ invoked = [r \in Runners |->
                  <<[stage |-> "RunRewriter", result |-> "nil", out |-> Rewritten(1)]>>]
  /\ runErr = [r \in Runners |-> "running"]
  /\ runs = [r \in Runners |-> 1]
  /\ hist = [r \in Runners |-> <<>>]
  /\ entry = [r \in Runners |-> fs]
  /\ prev = [r \in Runners |-> NoRun]
  /\ restoreFailed = FALSE
  /\ renameFailed = FALSE
  /\ faults = FALSE
  /\ stopped = ""
  /\ RewriterIdle
  /\ LLMIdle
  /\ MetricsIdle

\* dryRunProcess of process r from its second stage on.
DryRunStep(r) ==
  \/ RunInvoke(r)
  \/ RunFail(r)
  \/ RunSucceed(r)
  \/ CompileMkdir(r)
  \/ CompileStat(r)
  \/ CompileBackup(r)
  \/ CompileSwap(r)
  \/ CompileSwapUndo(r)
  \/ CompileBuild(r)
  \/ CompileBuildFailed(r)
  \/ CompileUnswap(r)
  \/ CompileUnswapUndo(r)
  \/ CompileRestoreStat(r)
  \/ CompileRestore(r)
  \/ CompileRestoreFailed(r)
  \/ TestsStat(r)
  \/ TestsBackup(r)
  \/ TestsSwap(r)
  \/ TestsSwapUndo(r)
  \/ TestsExec(r)
  \/ TestsUnswap(r)
  \/ TestsRestoreStat(r)
  \/ TestsRestore(r)
  \/ TestsReturn(r)

NextConcurrent == \E r \in Runners : DryRunStep(r)

SpecConcurrent == InitConcurrent /\ [][NextConcurrent]_vars

\* The processes keep taking steps until both have returned.
FairSpecConcurrent == SpecConcurrent /\ WF_vars(NextConcurrent)

\* Process a has backed the source up and swapped its rewritten file in, and
\* has not yet renamed it back.
MidTransaction(a) ==
  /\ pc[a] \in {"CR_build", "CR_build_failed", "CR_unswap", "RT_test", "RT_unswap"}
  /\ Did(a, "backup", TRUE)
  /\ Did(a, "swap", TRUE)

\* No path holds the original source text.
NoOriginal == \A p \in Paths : fs[p] # Original

\* The step in which process b, while a is mid-transaction, finds a's
\* rewritten file at the source path and its rename to the backup path
\* succeeds although the backup path holds the original.
BackupOverBackup(a, b) ==
  /\ a # b
  /\ MidTransaction(a)
  /\ pc[b] \in {"CR_backup", "RT_backup"}
  /\ fs[SuspiciousPath] = Rewritten(1)
  /\ fs[BackupFile] = Original
  /\ pc'[b] \in {"CR_swap", "RT_swap"}

\* Process b has just backed up the rewritten file it found while a is
\* mid-transaction.
BackedUpRewritten(a, b) ==
  /\ a # b
  /\ MidTransaction(a)
  /\ pc[b] \in {"CR_swap", "RT_swap"}
  /\ hist[b] = <<[op |-> "backup", ok |-> TRUE, src |-> Rewritten(1)]>>

BothReturned == \A r \in Runners : pc[r] = "done"

\* C31: when two dry-run processes interleave CompileRewritten / RunTests on
\* the same paths, a step in which one backs up the other's swapped-in
\* rewritten file replaces the backup holding the original, after which no
\* path holds the original text, it never comes back, and both runs return
\* with the source path not holding the original.
C31_ConcurrentRunsLoseOriginal ==
  /\ [][\A a, b \in Runners :
          BackupOverBackup(a, b) => (fs'[BackupFile] = Rewritten(1) /\ NoOriginal')]_vars
  /\ [][NoOriginal => NoOriginal']_vars
  /\ (\E a, b \in Runners : BackedUpRewritten(a, b))
       ~> (BothReturned /\ fs[SuspiciousPath] # Original)

C31_Witness ==
  \E a, b \in Runners :
    /\ BackedUpRewritten(a, b)
    /\ fs[BackupFile] = Rewritten(1)
    /\ NoOriginal

\* ------------------------------------------------------------- a killed process
\* The positions inside CompileRewritten and RunTests.
InsideSwap ==
  {"CR_mkdir", "CR_stat", "CR_backup", "CR_swap", "CR_swap_undo", "CR_build",
   "CR_build_failed", "CR_unswap", "CR_unswap_undo", "CR_restore_stat",
   "CR_restore", "CR_restore_failed",
   "RT_stat", "RT_backup", "RT_swap", "RT_swap_undo", "RT_test", "RT_unswap",
   "RT_restore_stat", "RT_restore", "RT_result"}

\* The process is killed (or the machine stops) inside CompileRewritten or
\* RunTests: no deferred call or signal handler runs, the files stay as they
\* are.
Crash(r) ==
  /\ stopped = ""
  /\ runs[r] = 1
  /\ pc[r] \in InsideSwap
  /\ stopped' = pc[r]
  /\ Goto(r, "done")
  /\ runErr' = [runErr EXCEPT ![r] = "killed"]
  /\ UNCHANGED <<fs, cfg, testErr, invoked, runs, nextVer, hist, entry, prev,
                 restoreFailed, renameFailed, faults>>
  /\ UNCHANGED <<rwVars, llmVars, mtVars>>

\* A first run that may be killed, then later runs; a rename fails only when
\* its source is missing.
InitCrash ==
  /\ fs \in InitFiles
  /\ ManagerIdle
  /\ faults = FALSE
  /\ stopped = ""
  /\ RewriterIdle
  /\ LLMIdle
  /\ MetricsIdle

\* The steps of a run on a file system whose renames fail only when the
\* source is missing.
ReliableStep(r) ==
  \/ StartRun(r)
  \/ RunInvoke(r)
  \/ RunFail(r)
  \/ RunSucceed(r)
  \/ RunRewriterStat(r)
  \/ RunRewriterExec(r)
  \/ CalculateMetrics(r)
  \/ CompileMkdir(r)
  \/ CompileStat(r)
  \/ CompileBackup(r)
  \/ CompileSwap(r)
  \/ CompileSwapUndo(r)
  \/ CompileBuild(r)
  \/ CompileBuildFailed(r)
  \/ CompileUnswap(r)
  \/ CompileRestoreStat(r)
  \/ CompileRestore(r)
  \/ TestsStat(r)
  \/ TestsBackup(r)
  \/ TestsSwap(r)
  \/ TestsExec(r)
  \/ TestsUnswap(r)
  \/ TestsRestoreStat(r)
  \/ TestsRestore(r)
  \/ TestsReturn(r)
  \/ DeployStatNew(r)
  \/ DeployStatOrig(r)
  \/ DeployBackup(r)
  \/ DeployRename(r)
  \/ CleanUpRewritten(r)
  \/ CleanUpBackup(r)
  \/ CleanUpBinaryBackup(r)
  \/ CleanUpNewBinary(r)

NextCrash == \E r \in Solo : ReliableStep(r) \/ Crash(r)

SpecCrash == InitCrash /\ [][NextCrash]_vars

\* The positions after the rename of the source to its .backup path and
\* before the rename back.
AfterBackup ==
  {"CR_swap", "CR_swap_undo", "CR_build", "CR_build_failed", "CR_unswap",
   "CR_unswap_undo", "CR_restore_stat", "CR_restore",
   "RT_swap", "RT_swap_undo", "RT_test", "RT_unswap", "RT_restore_stat",
   "RT_restore"}

\* The positions of the renames of the .backup file to the source path.
RestoreSteps ==
  {"CR_swap_undo", "CR_build_failed", "CR_unswap_undo", "CR_restore",
   "RT_swap_undo", "RT_restore"}

\* The outputs of the rewriter.
RewrittenFiles == {Rewritten(n) : n \in 1..nextVer}

\* The process was killed after it had renamed the original to .backup and
\* before it renamed it back, and has not been started again.
StoppedMidSwap(r) ==
  /\ pc[r] = "done"
  /\ runErr[r] = "killed"
  /\ \E i \in DOMAIN hist[r] :
       hist[r][i] = [op |-> "backup", ok |-> TRUE, src |-> Original]
  /\ ~Tried(r, "restore")

\* A run started after such a kill that has not yet reached a rename of the
\* .backup file: it is in RunRewriter or CalculateMetrics, or in its first
\* CompileRewritten before any restore.
LaterRunBeforeRestore(r) ==
  /\ stopped \in AfterBackup
  /\ runs[r] = 2
  /\ pc[r] # "done"
  /\ LET n == Len(invoked[r]) IN
       \/ n = 0
       \/ invoked[r][n].stage \in {"RunRewriter", "CalculateMetrics"}
       \/ /\ invoked[r][n].stage = "CompileRewritten"
          /\ invoked[r][n].result = "pending"
          /\ ~Tried(r, "restore")

\* A step that brings the original back to the source path.
BroughtBack == fs[SuspiciousPath] # Original /\ fs'[SuspiciousPath] = Original

\* C36: a process killed inside CompileRewritten or RunTests between the
\* backup rename and the restore leaves the source path with the rewritten
\* file or no file and the original only at .backup; a later run reads,
\* stats and renames the source path while it still does not hold the
\* original, and the only steps that ever rename the .backup file back are
\* the restore steps of CompileRewritten and RunTests, after that stage's
\* own backup or swap.
C36_NotCrashSafe ==
  /\ [](\A r \in Solo :
          StoppedMidSwap(r) =>
            /\ fs[SuspiciousPath] = None \/ fs[SuspiciousPath] \in RewrittenFiles
            /\ \A p \in Paths : (fs[p] = Original) <=> (p = BackupFile))
  /\ [](\A r \in Solo : LaterRunBeforeRestore(r) => fs[SuspiciousPath] # Original)
  /\ [][\A r \in Solo :
          BroughtBack =>
            /\ pc[r] \in RestoreSteps
            /\ Tried(r, "backup") \/ Tried(r, "swap")]_vars

\* A Run started after the kill has computed its metrics and is about to stat
\* the source path, which holds the rewritten file.
C36_Witness ==
  \E r \in Solo :
    /\ LaterRunBeforeRestore(r)
    /\ ~cfg[r].dry
    /\ pc[r] = "CR_stat"
    /\ fs[SuspiciousPath] = Rewritten(1)
    /\ fs[BackupFile] = Original
====
